---- MODULE Spec2Model ----
(***************************************************************************)
(* Recipe-discovery subsystem of the Smart Grocery Assistant (app.py):     *)
(* the key-rotating provider client (call_spoonacular), the list request   *)
(* (spoonacular_recipes) with its persisted list cache and offline         *)
(* catalog, and the detail request (spoonacular_recipe_details).           *)
(*                                                                         *)
(* One step of the model is one iteration of call_spoonacular's loop       *)
(* (one network attempt) together with everything its caller does until    *)
(* the next network attempt or the return.                                 *)
(***************************************************************************)
EXTENDS Integers, Sequences, FiniteSets, TLC

\* ------------------------------------------------------------------ bounds
MaxKeys == 3
MaxTime == 4
MaxIngredients == 3
MaxPantry == 2
MaxTopK == 3
MaxTxns == 2
MaxItems == 2
MaxMs == 2

\* ------------------------------------------------------- program constants
CACHE_TTL_DAYS == 3
DefaultNumber == 10

\* -------------------------------------------------------------- utilities
Max2(a, b) == IF a >= b THEN a ELSE b

EmptyMap == [k \in {} |-> k]

Put(m, k, v) == [x \in (DOMAIN m) \cup {k} |-> IF x = k THEN v ELSE m[x]]

\* ------------------------------------------------------ strings (tables)
\* str.strip() and str.lower() on the ingredient and diet names of the model.
Strip(x) ==
  CASE x = " milk" -> "milk"
    [] x = " " -> ""
    [] x = " abc.jpg" -> "abc.jpg"
    [] x = " https://x.io/a.jpg " -> "https://x.io/a.jpg"
    [] OTHER -> x

Lower(x) ==
  CASE x = "Egg" -> "egg"
    [] x = "Milk" -> "milk"
    [] x = "Keto" -> "keto"
    [] x = "Vegan" -> "vegan"
    [] x = "Paleo" -> "paleo"
    [] x = "Gluten-Free" -> "gluten-free"
    [] x = "NONE" -> "none"
    [] OTHER -> x

\* A pantry of 21 items, one more than a query carries, in alphabetical order.
AllItems ==
  << "oats", "olive", "onion", "orange", "pasta", "peach", "pear", "peas", "pepper",
     "plum", "pork", "potato", "rice", "salt", "spinach", "sugar", "tofu", "tomato",
     "tuna", "yeast", "yogurt" >>

\* Code-point order of the lower-cased, stripped names (str.__lt__).
Rank(x) ==
  CASE x = "" -> 0
    [] x = "bread" -> 1
    [] x = "egg" -> 2
    [] x = "milk" -> 3
    [] \E i \in 1..Len(AllItems) : AllItems[i] = x ->
         4 + (CHOOSE i \in 1..Len(AllItems) : AllItems[i] = x)
    [] OTHER -> 4

RECURSIVE Insert(_, _)
Insert(x, sq) ==
  IF sq = <<>> THEN <<x>>
  ELSE IF Rank(x) <= Rank(Head(sq)) THEN <<x>> \o sq
  ELSE <<Head(sq)>> \o Insert(x, Tail(sq))

\* The names left in the order given.
KeepOrder(sq) == sq

RECURSIVE Sorted(_)
Sorted(sq) == IF sq = <<>> THEN <<>> ELSE Insert(Head(sq), Sorted(Tail(sq)))

\* [x.strip() for x in (include_ingredients or []) if x and x.strip()]
RECURSIVE CleanIngredients(_)
CleanIngredients(sq) ==
  IF sq = <<>> THEN <<>>
  ELSE (IF Head(sq) # "" /\ Strip(Head(sq)) # "" THEN <<Strip(Head(sq))>> ELSE <<>>)
         \o CleanIngredients(Tail(sq))

\* (x.strip().lower() for x in ingredients if x)
RECURSIVE LowerAll(_)
LowerAll(sq) ==
  IF sq = <<>> THEN <<>>
  ELSE (IF Head(sq) # "" THEN <<Lower(Strip(Head(sq)))>> ELSE <<>>)
         \o LowerAll(Tail(sq))

\* None of Python, for a diet argument.
None == "None"

\* ------------------------------------------------------------ key pool
\* KEYS holds non-empty key strings (empty ones are dropped when the pool is
\* read from SPOON_KEYS); the model names them 1, 2, 3, ...
KeyPools == { [i \in 1..n |-> i] : n \in 0..MaxKeys }

\* One iteration too many.
BudgetOneMore(keys) == Max2(1, Len(keys)) + 1

\* n = max(1, len(KEYS))
Budget(keys) == Max2(1, Len(keys))

\* Rotation that does not move / does not wrap.
RotateStuck(i, n) == i
RotateNoWrap(i, n) == i + 1

\* st.session_state.key_index = (st.session_state.key_index + 1) % n
Rotate(i, n) == (i + 1) % n

\* current_key(): "" for an empty pool, else KEYS[key_index]; 0 stands for "".
CurrentKey(keys, i) == IF Len(keys) = 0 THEN 0 ELSE keys[i + 1]

\* Every failure status a rotate signal, 500 included.
IsRotateStatusWith500(st) == st \in {401, 402, 429, 500}

\* 429 (rate limited) left out of the rotate signals.
IsRotateStatusNo429(st) == st \in {401, 402}

\* r.status_code in (401, 402, 429)
IsRotateStatus(st) == st \in {401, 402, 429}

\* ------------------------------------------------------- cache (files)
\* A JSON file on disk: missing, unreadable, not JSON ("corrupt"), a JSON
\* document of the expected shape ("doc"), or valid JSON of another shape.
MissingFile == [kind |-> "missing", items |-> EmptyMap]
UnreadableFile == [kind |-> "unreadable", items |-> EmptyMap]
CorruptFile == [kind |-> "corrupt", items |-> EmptyMap]
BadShapeFile == [kind |-> "badshape", items |-> EmptyMap]
Doc(items) == [kind |-> "doc", items |-> items]

\* _read_json(path, default): the default when the file is missing or cannot
\* be read or parsed, else whatever JSON value the file holds.
ReadJson(file, default) ==
  IF file.kind \in {"missing", "unreadable", "corrupt"} THEN default ELSE file

\* _write_json(path, data): the whole document replaces the file; a failure
\* is swallowed and leaves the file as it was (open failed) or truncated
\* (the dump failed partway).
WriteOutcomes == {"ok", "fail", "torn"}

MissingDetailFile == [kind |-> "missing", val |-> [id |-> 0, title |-> "", src |-> "none"]]
CorruptDetailFile == [kind |-> "corrupt", val |-> [id |-> 0, title |-> "", src |-> "none"]]
DetailDoc(d) == [kind |-> "doc", val |-> d]

WriteJson(file, data, w) ==
  CASE w = "ok" -> data
    [] w = "fail" -> file
    [] OTHER -> IF "items" \in DOMAIN data THEN CorruptFile ELSE CorruptDetailFile

\* Freshness that never expires / that excludes the boundary.
IsFreshAlways(ts, t) == TRUE
IsFreshStrict(ts, t) == t - ts < CACHE_TTL_DAYS
\* A TTL one day too long.
IsFreshLate(ts, t) == t - ts <= CACHE_TTL_DAYS + 1

\* _is_fresh(iso_str): utcnow() - ts <= timedelta(days = CACHE_TTL_DAYS)
IsFresh(ts, t) == t - ts <= CACHE_TTL_DAYS

\* _cache_key(ingredients, diet, number)
CacheKey(ingredients, diet, number) ==
  [ norm |-> Sorted(LowerAll(ingredients)),
    d    |-> Lower(IF diet \in {None, ""} THEN "none" ELSE diet),
    n    |-> IF number = 0 THEN DefaultNumber ELSE number ]

\* A diet_map.get without its default: a name outside the map gives None.
DietNormDropUnknown(diet) ==
  LET given == IF diet = None THEN "" ELSE diet
      l     == Lower(given)
  IN CASE l = "keto" -> "ketogenic"
       [] l = "gluten-free" -> "gluten free"
       [] l = "paleo" -> "paleolithic"
       [] OTHER -> None

\* diet_map.get((diet or "").lower(), (diet or ""))
DietNorm(diet) ==
  LET given == IF diet = None THEN "" ELSE diet
      l     == Lower(given)
  IN CASE l = "keto" -> "ketogenic"
       [] l = "gluten-free" -> "gluten free"
       [] l = "paleo" -> "paleolithic"
       [] l = "none" -> None
       [] OTHER -> given

DefaultIngredients == <<"egg", "milk", "bread">>

\* ingredients[:20]
QueryLimit == 20

\* The names an online list request puts into "includeIngredients" (line 391)
\* and "ingredients" (line 431): ingredients[:20], in the order given.
QueryIngredients(include_ingredients) ==
  LET cleaned     == CleanIngredients(include_ingredients)
      ingredients == IF cleaned = <<>> THEN DefaultIngredients ELSE cleaned
  IN SubSeq(ingredients, 1, IF Len(ingredients) < QueryLimit THEN Len(ingredients) ELSE QueryLimit)

\* The cache key of an online list request (lines 371-377).
OnlineKey(a) ==
  LET diet_norm   == DietNorm(a.diet)
      cleaned     == CleanIngredients(a.ingredients)
      ingredients == IF cleaned = <<>> THEN DefaultIngredients ELSE cleaned
  IN CacheKey(ingredients, IF diet_norm \in {None, ""} THEN "none" ELSE diet_norm, a.number)

\* No "diet" entry in params.
NoParam == "<absent>"

\* if diet_norm: params["diet"] = diet_norm -- the "diet" parameter of the
\* complexSearch request for the diet argument `diet`.
DietParam(diet) ==
  IF DietNorm(diet) \in {None, ""} THEN NoParam ELSE DietNorm(diet)

\* ------------------------------------------------------------- recipes
Rec(i) == [id |-> i, title |-> IF i = 1 THEN "Dal" ELSE "Soup"]

\* What the two search endpoints can answer with status 200.
Results == { <<>>, <<Rec(2), Rec(1)>> }

\* The summaries built from a result list (one per record, in order).
Normalize(results, endpoint) ==
  [i \in 1..Len(results) |->
     [id |-> results[i].id, title |-> results[i].title, src |-> endpoint]]

\* Offline catalog.
BuiltinRecipes ==
  << [id |-> 910001, title |-> "Masala Khichdi", src |-> "builtin"],
     [id |-> 910002, title |-> "Paneer Bhurji Wrap", src |-> "builtin"],
     [id |-> 910003, title |-> "Garlic Butter Pasta", src |-> "builtin"] >>

DemoFileRecipes == << [id |-> 900001, title |-> "Demo Stew", src |-> "demofile"] >>

\* DEMO_RECIPES_FILE as a request finds it: missing, unreadable, a JSON value
\* that is no non-empty list, or a non-empty list.
DemoFileStates == {"missing", "corrupt", "empty", "list"}

\* The demo file's list taken as it is, without the "and demo" test.
LoadDemoRecipesUnchecked(f) ==
  CASE f = "list" -> DemoFileRecipes
    [] f = "empty" -> <<>>
    [] OTHER -> BuiltinRecipes

\* _load_demo_recipes()
LoadDemoRecipes(f) == IF f = "list" THEN DemoFileRecipes ELSE BuiltinRecipes

\* Recipe ids of detail requests; 0 is a falsy id.
RecipeIds == {0, 1, 2}
DemoDetailIds == {2}

NoDetail == [id |-> 0, title |-> "", src |-> "none"]
DemoDetail(i) == [id |-> i, title |-> Rec(i).title, src |-> "demo"]
ApiDetail(data) == [id |-> data.id, title |-> data.title, src |-> "api"]

\* _load_demo_details(recipe_id)
LoadDemoDetails(i) == IF i \in DemoDetailIds THEN DemoDetail(i) ELSE NoDetail

\* --------------------------------------------------- provider outcomes
Exc == [kind |-> "exc", status |-> 0, parse |-> "bad", body |-> <<>>]
Resp(st, parse, body) == [kind |-> "resp", status |-> st, parse |-> parse, body |-> body]
NoResponse == [kind |-> "none", status |-> 0, parse |-> "bad", body |-> <<>>]
NeverCalled == [kind |-> "never", status |-> 0, parse |-> "bad", body |-> <<>>]

FailStatuses == {401, 402, 429, 500}

ListOutcomes ==
  {Exc} \cup { Resp(st, "bad", <<>>) : st \in FailStatuses }
        \cup { Resp(200, "bad", <<>>) }
        \cup { Resp(200, "ok", b) : b \in Results }

DetailOutcomes(i) ==
  {Exc} \cup { Resp(st, "bad", <<>>) : st \in FailStatuses }
        \cup { Resp(200, "bad", <<>>), Resp(200, "ok", <<Rec(i)>>) }

\* An attempt after which call_spoonacular rotates and continues.
IsRotateSignal(out) ==
  out.kind = "exc" \/ (out.kind = "resp" /\ IsRotateStatus(out.status))

\* ------------------------------------------------------------ requests
\* (include_ingredients, diet, number) of a list request.
Args ==
  { [ingredients |-> <<"Egg", " milk">>,    diet |-> None,   number |-> 10],
    [ingredients |-> <<"milk", "egg", " ">>, diet |-> "none", number |-> 10] }

\* A request for other ingredients: another cache key.
MoreArgs == { [ingredients |-> <<"bread">>, diet |-> None, number |-> 10] }

\* Requests with a diet that diet_map translates, and with no ingredients.
DietQueries ==
  { [ingredients |-> <<"Egg">>, diet |-> "keto",  number |-> 10],
    [ingredients |-> <<"Egg">>, diet |-> "Paleo", number |-> 10],
    [ingredients |-> <<>>,      diet |-> None,    number |-> 10] }

NoKeyYet == [norm |-> <<>>, d |-> "", n |-> 0]

IdleReq == [op |-> "none", key |-> NoKeyYet, blob |-> Doc(EmptyMap), rid |-> 0, attempts |-> 0]

NoRet == [via |-> "none", list |-> <<>>, detail |-> NoDetail, attempts |-> 0]

\* ------------------------------------- helper functions on their own
\* _cache_key applied to two argument tuples a and b, or _is_fresh applied to
\* a timestamp ts at time t.
NoArg == [ingredients |-> <<>>, diet |-> None, number |-> 0]

\* _fix_image_url applied to (val, rid, image_type), and the url it returns.
NoImg == [val |-> None, rid |-> None, image_type |-> None, url |-> None]

NoProbe ==
  [fn |-> "none", done |-> FALSE, a |-> NoArg, b |-> NoArg, ka |-> NoKeyYet, kb |-> NoKeyYet,
   ts |-> 0, t |-> 0, fresh |-> FALSE, img |-> NoImg, diet |-> [given |-> None, sent |-> "<absent>"],
   qa |-> <<>>, qb |-> <<>>]

SeqsUpTo(S, n) == UNION { [1..k -> S] : k \in 0..n }

KeyInputs ==
  LET ProbeNames   == {"Egg", "egg", "milk"}
      ProbeDiets   == {None, "vegan", "Vegan"}
      ProbeNumbers == {5, 10}
  IN { [ingredients |-> l, diet |-> d, number |-> n] :
         l \in SeqsUpTo(ProbeNames, MaxIngredients), d \in ProbeDiets, n \in ProbeNumbers }

\* Ingredient selections: short ones, the whole pantry in two orders, and its
\* first 20 and last 20 items.
QueryLists ==
  LET Reverse(sq) == [i \in 1..Len(sq) |-> sq[Len(sq) + 1 - i]]
  IN
  { <<>>, <<"egg", "milk", "bread">>, <<"egg", "milk">>, <<"milk", "egg">>, <<"Egg", " milk">>,
    AllItems, Reverse(AllItems),
    SubSeq(AllItems, 1, 20), Reverse(SubSeq(AllItems, 1, 20)), SubSeq(AllItems, 2, 21) }

\* The diet argument: absent, empty, "none", the names of diet_map in two
\* cases, and names outside it.
DietArgs ==
  { None, "", "none", "NONE", "keto", "Keto", "gluten-free", "Gluten-Free",
    "paleo", "Paleo", "vegan", "Vegan", "pescetarian" }

\* ------------------------------------------------ image helpers (app.py)
\* A value of the "image" field that is no string (a number, a dict).
ImgNonStr == "<non-str>"

\* The "image" field of a provider record: absent, no string, blank, a full
\* URL (plain, or with blanks around it), a file name, a relative path.
ImageVals ==
  { None, ImgNonStr, "", " ",
    "https://x.io/a.jpg", " https://x.io/a.jpg ", "http://x.io/a.png",
    "data:image/png;base64,AA==",
    "abc.jpg", " abc.jpg", "abc.jpeg", "abc.png", "abc.webp", "abc.JPG",
    "dir/abc.jpg" }

\* The "id" field: absent, a number (or its decimal string), no number.
RidVals == {None, "123", "abc"}

\* The "imageType" field.
ImageTypes == {None, "", "jpg", "png"}

\* isinstance(val, str)
IsStr(val) == val \notin {None, ImgNonStr}

\* v.startswith(p), for the values of the model.
StartsWith(v, p) ==
  CASE p = "http://" -> v = "http://x.io/a.png"
    [] p = "https://" -> v = "https://x.io/a.jpg"
    [] p = "data:" -> v = "data:image/png;base64,AA=="
    [] OTHER -> FALSE

\* v.endswith(sfx), for the values of the model (case matters).
EndsWith(v, sfx) ==
  CASE sfx = ".jpg" -> v \in {"abc.jpg", "dir/abc.jpg", "https://x.io/a.jpg"}
    [] sfx = ".jpeg" -> v = "abc.jpeg"
    [] sfx = ".png" -> v \in {"abc.png", "http://x.io/a.png"}
    [] OTHER -> FALSE

\* "/" in v
HasSlash(v) ==
  v \in {"dir/abc.jpg", "https://x.io/a.jpg", "http://x.io/a.png", "data:image/png;base64,AA=="}

CdnBase == "https://img.spoonacular.com/recipes/"

\* int(rid): raises for None and for a string that is no number.
IntParses(rid) == rid = "123"
IntOf(rid) == IF rid = "123" THEN 123 ELSE 0

\* _build_img_from_id(rid, image_type)
BuildImgFromId(rid, image_type) ==
  IF ~IntParses(rid) THEN None
  ELSE IF image_type \in {None, ""} THEN None
  ELSE CdnBase \o ToString(IntOf(rid)) \o "-556x370." \o image_type

\* _fix_image_url(val, rid, image_type)
FixImageUrl(val, rid, image_type) ==
  LET v     == Strip(val)
      isurl == \E p \in {"http://", "https://", "data:"} : StartsWith(v, p)
      isimg == \E sfx \in {".jpg", ".jpeg", ".png"} : EndsWith(v, sfx)
      built == BuildImgFromId(rid, image_type)
  IN IF IsStr(val) /\ v # "" /\ isurl THEN v
     ELSE IF IsStr(val) /\ v # "" /\ isimg /\ ~HasSlash(v) THEN CdnBase \o v
     ELSE IF built # None THEN built
     ELSE None

\* --------------------------------- recommender (model_trainer.py)
\* NaN of pandas: a missing cell.
NaN == "NaN"

\* str.replace(" ", "_") on the names of the model.
Underscore(x) == IF x = "green beans" THEN "green_beans" ELSE x

\* str(i).lower().strip().replace(" ", "_")
PrepToken(x) == Underscore(Strip(Lower(x)))

\* A recipe corpus: rows of (recipe_id, ingredient tokens, diet_tag), with or
\* without the diet_tag column; a missing tag is NaN.
Row(i, txt, tag) == [id |-> i, txt |-> txt, diet |-> tag]

CorpusTagged ==
  [ has_diet |-> TRUE,
    rows |-> << Row(1, <<"egg", "milk">>, "Vegan"),
                Row(2, <<"egg", "bread">>, "keto"),
                Row(3, <<"milk", "bread", "green_beans">>, "vegan"),
                Row(4, <<"egg", "egg">>, NaN) >> ]

CorpusPlain ==
  [ has_diet |-> FALSE,
    rows |-> << Row(11, <<"milk">>, NaN), Row(12, <<"milk", "egg">>, NaN) >> ]

\* No term occurs in two recipes: the vectorizer's fit raises.
CorpusTiny == [ has_diet |-> FALSE, rows |-> << Row(21, <<"egg">>, NaN) >> ]

Corpora == {CorpusTagged, CorpusPlain, CorpusTiny}

Range(sq) == { sq[i] : i \in 1..Len(sq) }

\* How often tok occurs in the token sequence txt.
Count(txt, tok) == Cardinality({ i \in 1..Len(txt) : txt[i] = tok })

\* TfidfVectorizer(min_df=2): the terms that occur in at least 2 recipes
\* (unigrams; the bigrams of ngram_range=(1,2) are left out of the model).
Vocabulary(c) ==
  { tok \in UNION { Range(c.rows[i].txt) : i \in 1..Len(c.rows) } :
      Cardinality({ i \in 1..Len(c.rows) : tok \in Range(c.rows[i].txt) }) >= 2 }

\* Alphabetical order of the tokens: the column order of the term matrix.
TokRank(tok) ==
  CASE tok = "bread" -> 1
    [] tok = "egg" -> 2
    [] tok = "green_beans" -> 3
    [] tok = "milk" -> 4
    [] OTHER -> 5

\* vocabulary_[tok]: the column of tok, from 1.
Column(vocab, tok) == Cardinality({ x \in vocab : TokRank(x) <= TokRank(tok) })

\* fit_transform: one row of weights per recipe, one column per term; the
\* weight is the term's count in the recipe (standing for its TF-IDF weight,
\* which is positive exactly when the count is).
TermMatrix(c) ==
  [ i \in 1..Len(c.rows) |->
      [ j \in 1..Cardinality(Vocabulary(c)) |->
          Count(c.rows[i].txt, CHOOSE tok \in Vocabulary(c) : Column(Vocabulary(c), tok) = j) ] ]

\* The three files: recipe_tfidf_vectorizer.joblib, recipe_tfidf_matrix.joblib
\* and recipes_index.csv, each present or not.
NoArtifacts ==
  [ vect   |-> [present |-> FALSE, vocab |-> {}],
    matrix |-> [present |-> FALSE, w |-> <<>>],
    map    |-> [present |-> FALSE, rows |-> <<>>, has_diet |-> FALSE] ]

\* Where train_recipe_model can end: before the first dump (read_csv or the
\* fit raised), after the vectorizer's dump, after the matrix's, or at its
\* return.
TrainStops == {"fit", "after_vec", "after_mat", "done"}

\* The artifacts after train_recipe_model(c) that ended at `stop`.
Trained(art, c, stop) ==
  IF stop = "fit" \/ Vocabulary(c) = {}
  THEN art
  ELSE [ vect   |-> [present |-> TRUE, vocab |-> Vocabulary(c)],
         matrix |-> IF stop \in {"after_mat", "done"}
                    THEN [present |-> TRUE, w |-> TermMatrix(c)]
                    ELSE art.matrix,
         map    |-> IF stop = "done"
                    THEN [present |-> TRUE, rows |-> c.rows, has_diet |-> c.has_diet]
                    ELSE art.map ]

\* Only the vectorizer is looked for.
AllPresentVectOnly(art) == art.vect.present

\* os.path.exists(VECT_PATH) and os.path.exists(MATRIX_PATH) and
\* os.path.exists(RECIPES_MAP)
AllPresent(art) == art.vect.present /\ art.matrix.present /\ art.map.present

\* " ".join(str(i).lower().strip().replace(" ", "_") for i in pantry_items
\*          if str(i).strip()), as the sequence of its tokens
RECURSIVE PantryQuery(_)
PantryQuery(p) ==
  IF p = <<>> THEN <<>>
  ELSE (IF Strip(Head(p)) # "" THEN <<PrepToken(Head(p))>> ELSE <<>>) \o PantryQuery(Tail(p))

\* linear_kernel(qv, mat)[i]: the inner product of the query's vector with
\* row i; a token outside the vocabulary has no column and adds nothing.
RECURSIVE Sim(_, _, _)
Sim(query, vocab, wrow) ==
  IF query = <<>> THEN 0
  ELSE (IF Head(query) \in vocab THEN wrow[Column(vocab, Head(query))] ELSE 0)
         + Sim(Tail(query), vocab, wrow)

Scored(r, sc) == [id |-> r.id, diet |-> r.diet, score |-> sc]

\* No cut: the whole table.
HeadAll(rows, n) == rows

\* DataFrame.head(n): the first n rows, or all but the last -n for n < 0.
Head_(rows, n) ==
  IF n >= 0
  THEN SubSeq(rows, 1, IF n <= Len(rows) THEN n ELSE Len(rows))
  ELSE SubSeq(rows, 1, IF Len(rows) + n >= 0 THEN Len(rows) + n ELSE 0)

\* rec_map[rec_map["diet_tag"].str.lower() == diet.lower()]; a NaN tag
\* compares unequal.
RECURSIVE DietFilter(_, _)
DietFilter(rows, diet) ==
  IF rows = <<>> THEN <<>>
  ELSE (IF Head(rows).diet # NaN /\ Lower(Head(rows).diet) = Lower(diet)
        THEN <<Head(rows)>> ELSE <<>>) \o DietFilter(Tail(rows), diet)

\* Ascending instead of descending.
RECURSIVE InsertByScoreAsc(_, _, _)
InsertByScoreAsc(x, sq, tie) ==
  IF sq = <<>> THEN <<x>>
  ELSE IF x.score < Head(sq).score \/ (x.score = Head(sq).score /\ tie = "first")
  THEN <<x>> \o sq
  ELSE <<Head(sq)>> \o InsertByScoreAsc(x, Tail(sq), tie)

\* sort_values("score", ascending=False): the default quicksort is not
\* stable, so rows of equal score come out in an order the model leaves open
\* (`tie`: the later row first, or last).
RECURSIVE InsertByScore(_, _, _)
InsertByScore(x, sq, tie) ==
  IF sq = <<>> THEN <<x>>
  ELSE IF x.score > Head(sq).score \/ (x.score = Head(sq).score /\ tie = "first")
  THEN <<x>> \o sq
  ELSE <<Head(sq)>> \o InsertByScore(x, Tail(sq), tie)

RECURSIVE SortByScore(_, _)
SortByScore(rows, tie) ==
  IF rows = <<>> THEN <<>>
  ELSE InsertByScore(rows[Len(rows)], SortByScore(SubSeq(rows, 1, Len(rows) - 1), tie), tie)

Ties == {"first", "last"}

Raised(via) == [via |-> via, rows |-> <<>>]
Returned(via, rows) == [via |-> via, rows |-> rows]

\* recommend_from_pantry(pantry_items, top_k, diet): what it returns, or the
\* line at which it raises.
RecommendFromPantry(art, pantry, top_k, diet, tie) ==
  LET query  == PantryQuery(pantry)
      table  == art.map.rows
      scored == [i \in 1..Len(table) |->
                   Scored(table[i], Sim(query, art.vect.vocab, art.matrix.w[i]))]
      wanted == diet \notin {None, ""} /\ art.map.has_diet
  IN IF ~AllPresent(art) THEN Raised("x49")
     ELSE IF query = <<>>
     THEN Returned("r57", Head_([i \in 1..Len(table) |-> Scored(table[i], 0)], top_k))
     ELSE IF Len(art.matrix.w) > 0
             /\ Len(art.matrix.w[1]) # Cardinality(art.vect.vocab)
     THEN Raised("x61")
     ELSE IF Len(art.matrix.w) # Len(table) THEN Raised("x63")
     ELSE IF wanted /\ \A i \in 1..Len(table) : table[i].diet = NaN THEN Raised("x66")
     ELSE Returned("r69",
                   Head_(SortByScore(IF wanted THEN DietFilter(scored, diet) ELSE scored, tie),
                         top_k))

\* inventory_df.get("Product_Name", ...).dropna().tolist()
RECURSIVE DropNa(_)
DropNa(col) ==
  IF col = <<>> THEN <<>>
  ELSE (IF Head(col) # NaN THEN <<Head(col)>> ELSE <<>>) \o DropNa(Tail(col))

PantryNames == {"Egg", "milk", " ", "tofu", "green beans"}
TopKs == 0..MaxTopK
RecDiets == {None, "Vegan", "keto"}

NoRec ==
  [ caller |-> "none", pantry |-> <<>>, top_k |-> 0, diet |-> None,
    out |-> [via |-> "none", rows |-> <<>>] ]

\* ------------------------------------ Budget and Inventory pages (app.py)
\* Amounts are whole rupees, on which round(x, 2) and float() change nothing.
\* month_summary(): the ledger rows dated in month m of year y, their amounts
\* added up.  A row is (date, amount_inr); the other columns play no part.
RECURSIVE MonthSummary(_, _, _)
MonthSummary(txns, m, y) ==
  IF txns = <<>> THEN [spent |-> 0, n |-> 0]
  ELSE LET rest == MonthSummary(Tail(txns), m, y)
           row  == Head(txns)
           mask == row.date.m = m /\ row.date.y = y
       IN [ spent |-> rest.spent + (IF mask THEN row.amount_inr ELSE 0),
            n     |-> rest.n + (IF mask THEN 1 ELSE 0) ]

\* check_budget_status(state), with remaining_amount(state)
CheckBudgetStatus(s) ==
  LET rem    == s.monthly_budget - s.spent_this_month - s.planned_spend
      budget == s.monthly_budget
  IN [ monthly_budget   |-> budget,
       spent_this_month |-> s.spent_this_month,
       planned_spend    |-> s.planned_spend,
       remaining        |-> rem,
       status           |-> IF rem < 0 THEN "over"
                            ELSE IF budget > 0 /\ 10 * rem <= budget THEN "warning"
                            ELSE "ok" ]

\* The session before either page is opened: budget = DEFAULT_BUDGET, an empty
\* shopping list and ledger, an empty inventory, nothing shown.
NoHome ==
  [ menu      |-> "none",
    today     |-> [m |-> 11, y |-> 2026],
    budget    |-> [monthly_budget |-> 0, spent_this_month |-> 0, planned_spend |-> 0],
    extra_planned_inr |-> 0,
    txns      |-> <<>>,
    view      |-> [shown |-> FALSE, budget |-> 0, spent |-> 0, planned |-> 0,
                   remaining |-> 0, status |-> "ok"],
    inventory |-> <<>>,
    clock_ms  |-> 0 ]


\* ----------------------------------------------------------------- state
VARIABLES
  KEYS,          \* the key pool (fixed for the life of the process)
  now,           \* the clock, in days
  listCache,     \* the file LIST_CACHE (recipes_cache.json)
  detailCache,   \* the files DETAILS_DIR/<id>.json
  key_index,     \* st.session_state.key_index, per session
  offline_mode,  \* st.session_state.offline_mode, per session
  pc,            \* per session: where its request stands
  call,          \* per session: the call_spoonacular in progress or just returned
  req,           \* per session: the locals of the request in progress
  ret,           \* per session: what the last request returned
  queries,       \* the (ingredients, diet, number) tuples the users ask for
  probe,         \* a helper function of app.py applied on its own: inputs, result
  artifacts,     \* the training artifacts under artifacts/ (model_trainer.py)
  rec_ret,       \* what the last call of the recommender returned or raised
  home           \* the Budget and Inventory pages: session state, ledger, what is shown

vars == <<KEYS, now, listCache, detailCache, key_index, offline_mode, pc, call, req, ret,
          queries, probe, artifacts, rec_ret, home>>

\* The recipe client's state, and the rest.
Client == <<KEYS, now, listCache, detailCache, key_index, offline_mode, pc, call, req, ret>>
Aside == <<queries, probe, artifacts, rec_ret, home>>

Sess == DOMAIN pc

InCall == {"primary", "secondary", "detail"}
AfterCall == {"primary_ret", "secondary_ret", "detail_ret"}

\* Entering call_spoonacular: n = max(1, len(KEYS)) iterations ahead.
NewCall(keys, i) ==
  [left |-> Budget(keys), start |-> i, tried |-> <<>>, resp |-> NeverCalled]

NoCall == [left |-> 0, start |-> 0, tried |-> <<>>, resp |-> NeverCalled]

InitWith(S, caches) ==
  /\ KEYS \in KeyPools
  /\ now = 0
  /\ listCache \in caches
  /\ detailCache = [i \in RecipeIds \ {0} |-> MissingDetailFile]
  /\ key_index = [s \in S |-> 0]
  /\ offline_mode = [s \in S |-> FALSE]
  /\ pc = [s \in S |-> "idle"]
  /\ call = [s \in S |-> NoCall]
  /\ req = [s \in S |-> IdleReq]
  /\ ret = [s \in S |-> NoRet]

\* Nothing but the recipe client is in use.
AsideAtRest ==
  /\ queries = Args
  /\ probe = NoProbe
  /\ artifacts = NoArtifacts
  /\ rec_ret = NoRec
  /\ home = NoHome

Init == InitWith({1}, {MissingFile}) /\ AsideAtRest

\* ------------------------------------------------------------- actions
\* Time passes.
Tick ==
  /\ now < MaxTime
  /\ now' = now + 1
  /\ UNCHANGED <<KEYS, listCache, detailCache, key_index, offline_mode, pc, call, req, ret>>
  /\ UNCHANGED Aside

\* The "Offline mode" checkbox of the Recipes page.
ToggleOffline(s) ==
  /\ pc[s] = "idle"
  /\ offline_mode' = [offline_mode EXCEPT ![s] = ~@]
  /\ UNCHANGED <<KEYS, now, listCache, detailCache, key_index, pc, call, req, ret>>
  /\ UNCHANGED Aside

\* One session's control after a step of its request; the pool, the clock,
\* the offline flag and the key index are left alone.
Goto(s, npc, nreq, ncall) ==
  /\ pc' = [pc EXCEPT ![s] = npc]
  /\ req' = [req EXCEPT ![s] = nreq]
  /\ call' = [call EXCEPT ![s] = ncall]
  /\ UNCHANGED <<KEYS, now, offline_mode, key_index>>
  /\ UNCHANGED Aside

\* The request returns nret; its locals are gone.
Return(s, nret) ==
  /\ Goto(s, "idle", [req[s] EXCEPT !.blob = Doc(EmptyMap), !.attempts = 0], NoCall)
  /\ ret' = [ret EXCEPT ![s] = nret]

ListRet(via, lst, n) == [via |-> via, list |-> lst, detail |-> NoDetail, attempts |-> n]
DetailRet(via, d, n) == [via |-> via, list |-> <<>>, detail |-> d, attempts |-> n]

\* entry = blob["items"].get(key)
HasEntry(blob, key) == key \in DOMAIN blob.items

\* spoonacular_recipes in offline mode (lines 359-369); f is the demo file as
\* the request finds it.
OfflineList(s, a) ==
  LET ingredients == CleanIngredients(a.ingredients)
      diet_norm   == Lower(IF a.diet \in {None, ""} THEN "none" ELSE a.diet)
      key         == CacheKey(ingredients, diet_norm, a.number)
      blob        == ReadJson(listCache, Doc(EmptyMap))
      rq          == [op |-> "list", key |-> key, blob |-> Doc(EmptyMap), rid |-> 0,
                      attempts |-> 0]
  IN /\ Goto(s, "idle", rq, NoCall)
     /\ UNCHANGED <<listCache, detailCache>>
     /\ IF blob.kind # "doc"
        THEN ret' = [ret EXCEPT ![s] = ListRet("x364", <<>>, 0)]
        ELSE IF HasEntry(blob, key) /\ IsFresh(blob.items[key].ts, now)
        THEN ret' = [ret EXCEPT ![s] = ListRet("r367", blob.items[key].data, 0)]
        ELSE \E f \in DemoFileStates :
               ret' = [ret EXCEPT ![s] = ListRet("r369", LoadDemoRecipes(f), 0)]

\* spoonacular_recipes online, up to the first provider call (lines 371-402).
OnlineList(s, a) ==
  LET diet_norm   == DietNorm(a.diet)
      cleaned     == CleanIngredients(a.ingredients)
      ingredients == IF cleaned = <<>> THEN DefaultIngredients ELSE cleaned
      key         == CacheKey(ingredients,
                              IF diet_norm \in {None, ""} THEN "none" ELSE diet_norm,
                              a.number)
      blob        == ReadJson(listCache, Doc(EmptyMap))
      rq          == [op |-> "list", key |-> key, blob |-> blob, rid |-> 0, attempts |-> 0]
      gone        == [rq EXCEPT !.blob = Doc(EmptyMap)]
  IN /\ UNCHANGED <<listCache, detailCache>>
     /\ IF blob.kind # "doc"
        THEN /\ Goto(s, "idle", gone, NoCall)
             /\ ret' = [ret EXCEPT ![s] = ListRet("x379", <<>>, 0)]
        ELSE IF HasEntry(blob, key) /\ IsFresh(blob.items[key].ts, now)
        THEN /\ Goto(s, "idle", gone, NoCall)
             /\ ret' = [ret EXCEPT ![s] = ListRet("r382", blob.items[key].data, 0)]
        ELSE /\ Goto(s, "primary", rq, NewCall(KEYS, key_index[s]))
             /\ ret' = [ret EXCEPT ![s] = NoRet]

\* "Get recipes": spoonacular_recipes is called, and runs up to its first
\* provider call or its return.
ListRequest(s, a) ==
  /\ pc[s] = "idle"
  /\ IF offline_mode[s] THEN OfflineList(s, a) ELSE OnlineList(s, a)

\* The detail request with the offline catalog consulted before the cache.
DetailRequestDemoFirst(s, i) ==
  /\ pc[s] = "idle"
  /\ UNCHANGED <<listCache, detailCache>>
  /\ LET rq == [op |-> "detail", key |-> NoKeyYet, blob |-> Doc(EmptyMap), rid |-> i,
                attempts |-> 0]
     IN IF i = 0
        THEN /\ Goto(s, "idle", rq, NoCall)
             /\ ret' = [ret EXCEPT ![s] = DetailRet("r465", NoDetail, 0)]
        ELSE IF LoadDemoDetails(i) # NoDetail
        THEN /\ Goto(s, "idle", rq, NoCall)
             /\ ret' = [ret EXCEPT ![s] = DetailRet("r474", LoadDemoDetails(i), 0)]
        ELSE IF ReadJson(detailCache[i], MissingDetailFile).kind = "doc"
        THEN /\ Goto(s, "idle", rq, NoCall)
             /\ ret' = [ret EXCEPT ![s] = DetailRet("r470", detailCache[i].val, 0)]
        ELSE /\ Goto(s, "detail", rq, NewCall(KEYS, key_index[s]))
             /\ ret' = [ret EXCEPT ![s] = NoRet]

\* The detail request with the list cache's TTL applied to the detail cache:
\* a cached record is passed over once the clock is past the TTL.
DetailRequestExpiring(s, i) ==
  /\ pc[s] = "idle"
  /\ UNCHANGED <<listCache, detailCache>>
  /\ LET rq == [op |-> "detail", key |-> NoKeyYet, blob |-> Doc(EmptyMap), rid |-> i,
                attempts |-> 0]
     IN IF i = 0
        THEN /\ Goto(s, "idle", rq, NoCall)
             /\ ret' = [ret EXCEPT ![s] = DetailRet("r465", NoDetail, 0)]
        ELSE IF ReadJson(detailCache[i], MissingDetailFile).kind = "doc" /\ IsFresh(0, now)
        THEN /\ Goto(s, "idle", rq, NoCall)
             /\ ret' = [ret EXCEPT ![s] = DetailRet("r470", detailCache[i].val, 0)]
        ELSE IF LoadDemoDetails(i) # NoDetail
        THEN /\ Goto(s, "idle", rq, NoCall)
             /\ ret' = [ret EXCEPT ![s] = DetailRet("r474", LoadDemoDetails(i), 0)]
        ELSE /\ Goto(s, "detail", rq, NewCall(KEYS, key_index[s]))
             /\ ret' = [ret EXCEPT ![s] = NoRet]

\* A recipe card is expanded: spoonacular_recipe_details(recipe_id), up to its
\* provider call or its return (lines 465-479).
DetailRequest(s, i) ==
  /\ pc[s] = "idle"
  /\ UNCHANGED <<listCache, detailCache>>
  /\ LET rq == [op |-> "detail", key |-> NoKeyYet, blob |-> Doc(EmptyMap), rid |-> i,
                attempts |-> 0]
     IN IF i = 0
        THEN /\ Goto(s, "idle", rq, NoCall)
             /\ ret' = [ret EXCEPT ![s] = DetailRet("r465", NoDetail, 0)]
        ELSE IF ReadJson(detailCache[i], MissingDetailFile).kind = "doc"
        THEN /\ Goto(s, "idle", rq, NoCall)
             /\ ret' = [ret EXCEPT ![s] = DetailRet("r470", detailCache[i].val, 0)]
        ELSE IF LoadDemoDetails(i) # NoDetail
        THEN /\ Goto(s, "idle", rq, NoCall)
             /\ ret' = [ret EXCEPT ![s] = DetailRet("r474", LoadDemoDetails(i), 0)]
        ELSE /\ Goto(s, "detail", rq, NewCall(KEYS, key_index[s]))
             /\ ret' = [ret EXCEPT ![s] = NoRet]

\* ------------------------------------------------- call_spoonacular
ReturnPoint(p) ==
  CASE p = "primary" -> "primary_ret"
    [] p = "secondary" -> "secondary_ret"
    [] OTHER -> "detail_ret"

\* After an iteration that rotated: "continue", and "return None" when the
\* range is used up. c is the loop after the iteration.
Continue(s, c, rq) ==
  /\ key_index' = [key_index EXCEPT ![s] = Rotate(@, Budget(KEYS))]
  /\ pc' = [pc EXCEPT ![s] = IF c.left > 0 THEN @ ELSE ReturnPoint(@)]
  /\ call' = [call EXCEPT ![s] = IF c.left > 0 THEN c ELSE [c EXCEPT !.resp = NoResponse]]
  /\ req' = [req EXCEPT ![s] = rq]
  /\ UNCHANGED <<KEYS, now, offline_mode, listCache, detailCache, ret>>
  /\ UNCHANGED Aside

\* "if not k": rotate and continue, no request is sent (lines 43-46).
NoKeyStep(s) ==
  /\ pc[s] \in InCall
  /\ CurrentKey(KEYS, key_index[s]) = 0
  /\ Continue(s, [call[s] EXCEPT !.left = @ - 1], req[s])

\* One iteration that sends a request with the current key and gets `out`
\* (lines 47-59): rotate and continue on a rotate signal, else return r.
Attempt(s, out) ==
  /\ pc[s] \in InCall
  /\ CurrentKey(KEYS, key_index[s]) # 0
  /\ LET c  == [call[s] EXCEPT !.left = @ - 1,
                               !.tried = Append(@, CurrentKey(KEYS, key_index[s]))]
         rq == [req[s] EXCEPT !.attempts = @ + 1]
     IN IF IsRotateSignal(out)
        THEN Continue(s, c, rq)
        ELSE /\ Goto(s, ReturnPoint(pc[s]), rq, [c EXCEPT !.resp = out])
             /\ UNCHANGED <<listCache, detailCache, ret>>

OutcomesFor(s) ==
  IF pc[s] = "detail" THEN DetailOutcomes(req[s].rid) ELSE ListOutcomes

CallStep(s) == \E out \in OutcomesFor(s) : Attempt(s, out)

\* ------------------------------------------ after the provider call
\* bool(r) of a requests.Response is r.ok: a status below 400.
ResponseOk(r) == r.kind = "resp" /\ r.status < 400

\* "if r and r.status_code == 200:" is taken and the body is read and
\* normalized without an exception.
Parsed200(r) == ResponseOk(r) /\ r.status = 200 /\ r.parse = "ok"

\* The test for a non-empty list left out.
TruthyAlways(lst) == TRUE

\* "if summaries:" / "if out:": a non-empty list.
Truthy(lst) == lst # <<>>

\* A document holding the new entry alone.
SavedBlobKeyOnly(rq, data) == Doc(Put(EmptyMap, rq.key, [ts |-> now, data |-> data]))

\* _save_and_return(data_list): blob["items"][key] = {ts, data}; the whole
\* blob is written back; data_list is returned whatever the write did.
SavedBlob(rq, data) == Doc(Put(rq.blob.items, rq.key, [ts |-> now, data |-> data]))

ReturnSaved(s, via, data) ==
  \E w \in WriteOutcomes :
    /\ Return(s, ListRet(via, data, req[s].attempts))
    /\ listCache' = WriteJson(listCache, SavedBlob(req[s], data), w)
    /\ UNCHANGED detailCache

\* The fallback without the stale entry: always the offline catalog.
ReturnDemoOnly(s, via) ==
  /\ UNCHANGED <<listCache, detailCache>>
  /\ \E f \in DemoFileStates :
       Return(s, ListRet(via, LoadDemoRecipes(f), req[s].attempts))

\* "return entry.get('data', []) if entry else _load_demo_recipes()" at the
\* return statement `via` (line 424, 457 or 462).
ReturnFallback(s, via) ==
  /\ UNCHANGED <<listCache, detailCache>>
  /\ IF HasEntry(req[s].blob, req[s].key)
     THEN Return(s, ListRet(via, req[s].blob.items[req[s].key].data, req[s].attempts))
     ELSE \E f \in DemoFileStates :
            Return(s, ListRet(via, LoadDemoRecipes(f), req[s].attempts))

\* The same going on to attempt 2 after a saved result as well.
AfterPrimaryBoth(s) ==
  /\ pc[s] = "primary_ret"
  /\ LET r == call[s].resp
     IN IF ~(ResponseOk(r) /\ r.status = 200) /\ r.kind = "none"
        THEN ReturnFallback(s, "r424")
        ELSE /\ Goto(s, "secondary", req[s], NewCall(KEYS, key_index[s]))
             /\ UNCHANGED <<listCache, detailCache, ret>>

\* The same giving up after any answer that is no saved result.
AfterPrimaryGiveUp(s) ==
  /\ pc[s] = "primary_ret"
  /\ LET r == call[s].resp
     IN IF Parsed200(r) /\ Truthy(Normalize(r.body, "complexSearch"))
        THEN ReturnSaved(s, "r421", Normalize(r.body, "complexSearch"))
        ELSE ReturnFallback(s, "r424")

\* The same without the "elif r is None" branch: attempt 2 follows a total
\* failure too.
AfterPrimaryNoElif(s) ==
  /\ pc[s] = "primary_ret"
  /\ LET r == call[s].resp
     IN IF Parsed200(r) /\ Truthy(Normalize(r.body, "complexSearch"))
        THEN ReturnSaved(s, "r421", Normalize(r.body, "complexSearch"))
        ELSE /\ Goto(s, "secondary", req[s], NewCall(KEYS, key_index[s]))
             /\ UNCHANGED <<listCache, detailCache, ret>>

\* The complexSearch call has returned r (lines 403-436).
AfterPrimary(s) ==
  /\ pc[s] = "primary_ret"
  /\ LET r == call[s].resp
     IN IF Parsed200(r) /\ Truthy(Normalize(r.body, "complexSearch"))
        THEN ReturnSaved(s, "r421", Normalize(r.body, "complexSearch"))
        ELSE IF ~(ResponseOk(r) /\ r.status = 200) /\ r.kind = "none"
        THEN ReturnFallback(s, "r424")
        ELSE \* no results, another status, or an exception: on to attempt 2
             /\ Goto(s, "secondary", req[s], NewCall(KEYS, key_index[s]))
             /\ UNCHANGED <<listCache, detailCache, ret>>

\* The same starting over with attempt 1 when the provider answered attempt 2
\* without a result.
AfterSecondaryRetry(s) ==
  /\ pc[s] = "secondary_ret"
  /\ LET r == call[s].resp
     IN IF Parsed200(r) /\ Truthy(Normalize(r.body, "findByIngredients"))
        THEN ReturnSaved(s, "r455", Normalize(r.body, "findByIngredients"))
        ELSE IF ~(ResponseOk(r) /\ r.status = 200) /\ r.kind = "none"
        THEN ReturnFallback(s, "r457")
        ELSE /\ Goto(s, "primary", req[s], NewCall(KEYS, key_index[s]))
             /\ UNCHANGED <<listCache, detailCache, ret>>

\* The findByIngredients call has returned r2 (lines 437-462).
AfterSecondary(s) ==
  /\ pc[s] = "secondary_ret"
  /\ LET r == call[s].resp
     IN IF Parsed200(r) /\ Truthy(Normalize(r.body, "findByIngredients"))
        THEN ReturnSaved(s, "r455", Normalize(r.body, "findByIngredients"))
        ELSE IF ~(ResponseOk(r) /\ r.status = 200) /\ r.kind = "none"
        THEN ReturnFallback(s, "r457")
        ELSE ReturnFallback(s, "r462")

\* The same without the try/except around the body's parsing: an unparseable
\* body raises out of the function (at line 482).
AfterDetailNoExcept(s) ==
  /\ pc[s] = "detail_ret"
  /\ UNCHANGED listCache
  /\ LET r == call[s].resp
     IN IF ~ResponseOk(r) \/ r.status # 200
        THEN /\ Return(s, DetailRet("r481", NoDetail, req[s].attempts))
             /\ UNCHANGED detailCache
        ELSE IF r.parse # "ok"
        THEN /\ Return(s, DetailRet("x482", NoDetail, req[s].attempts))
             /\ UNCHANGED detailCache
        ELSE \E w \in WriteOutcomes :
               /\ Return(s, DetailRet("r502", ApiDetail(r.body[1]), req[s].attempts))
               /\ detailCache' = [detailCache EXCEPT ![req[s].rid] =
                                    WriteJson(@, DetailDoc(ApiDetail(r.body[1])), w)]

\* The information call has returned r (lines 480-504).
AfterDetail(s) ==
  /\ pc[s] = "detail_ret"
  /\ UNCHANGED listCache
  /\ LET r == call[s].resp
     IN IF ~ResponseOk(r) \/ r.status # 200
        THEN /\ Return(s, DetailRet("r481", NoDetail, req[s].attempts))
             /\ UNCHANGED detailCache
        ELSE IF r.parse # "ok"
        THEN /\ Return(s, DetailRet("r504", NoDetail, req[s].attempts))
             /\ UNCHANGED detailCache
        ELSE \E w \in WriteOutcomes :
               /\ Return(s, DetailRet("r502", ApiDetail(r.body[1]), req[s].attempts))
               /\ detailCache' = [detailCache EXCEPT ![req[s].rid] =
                                    WriteJson(@, DetailDoc(ApiDetail(r.body[1])), w)]

Next ==
  \/ Tick
  \/ \E s \in Sess : ToggleOffline(s)
  \/ \E s \in Sess : \E a \in queries : ListRequest(s, a)
  \/ \E s \in Sess : \E i \in RecipeIds : DetailRequest(s, i)
  \/ \E s \in Sess : NoKeyStep(s)
  \/ \E s \in Sess : CallStep(s)
  \/ \E s \in Sess : AfterPrimary(s)
  \/ \E s \in Sess : AfterSecondary(s)
  \/ \E s \in Sess : AfterDetail(s)

Spec == Init /\ [][Next]_vars

\* A request in progress takes its next step: the script runs a request to
\* its return on one thread, and every requests.get ends (timeout = 12 s).
RequestStep ==
  \E s \in Sess :
    NoKeyStep(s) \/ CallStep(s) \/ AfterPrimary(s) \/ AfterSecondary(s) \/ AfterDetail(s)

SpecLive == Init /\ [][Next]_vars /\ WF_vars(RequestStep)

\* The same program started on a list-cache file in any state it can be found in.
InitStore ==
  InitWith({1}, {MissingFile, UnreadableFile, CorruptFile, BadShapeFile}) /\ AsideAtRest

SpecStore == InitStore /\ [][Next]_vars

\* The same program with users asking for two different queries (and a pool
\* of at most one key).
InitTwoKeys ==
  /\ InitWith({1}, {MissingFile})
  /\ Len(KEYS) <= 1
  /\ queries = Args \cup MoreArgs
  /\ probe = NoProbe /\ artifacts = NoArtifacts /\ rec_ret = NoRec /\ home = NoHome

SpecTwoKeys == InitTwoKeys /\ [][Next]_vars

\* The same program started on detail files left by an earlier run: for each
\* id no file, an unparseable file, or the record fetched for that id.
InitDetailStore ==
  /\ KEYS \in KeyPools /\ Len(KEYS) <= 2
  /\ now = 0
  /\ listCache = MissingFile
  /\ detailCache \in [RecipeIds \ {0} -> {MissingDetailFile, CorruptDetailFile}
                                          \cup {DetailDoc(ApiDetail(Rec(i))) : i \in RecipeIds \ {0}}]
  /\ \A i \in RecipeIds \ {0} : detailCache[i].kind = "doc" => detailCache[i].val.id = i
  /\ key_index = [s \in {1} |-> 0]
  /\ offline_mode = [s \in {1} |-> FALSE]
  /\ pc = [s \in {1} |-> "idle"]
  /\ call = [s \in {1} |-> NoCall]
  /\ req = [s \in {1} |-> IdleReq]
  /\ ret = [s \in {1} |-> NoRet]
  /\ AsideAtRest

SpecDetailStore == InitDetailStore /\ [][Next]_vars

\* The same program with one user asking for the same thing every time, online
\* or offline: any one query, with a pool of at most one key.
InitOneQuery ==
  /\ InitWith({1}, {MissingFile})
  /\ Len(KEYS) <= 1
  /\ \E a \in Args \cup DietQueries : queries = {a}
  /\ probe = NoProbe /\ artifacts = NoArtifacts /\ rec_ret = NoRec /\ home = NoHome

SpecOneQuery == InitOneQuery /\ [][Next]_vars

\* Two browser sessions of the one server process (each with its own
\* st.session_state, on its own script thread) sharing the cache files; their
\* list requests interleave at the provider calls.
InitTwoSessions ==
  /\ InitWith({1, 2}, {MissingFile})
  /\ Len(KEYS) <= 1
  /\ queries = Args \cup MoreArgs
  /\ probe = NoProbe /\ artifacts = NoArtifacts /\ rec_ret = NoRec /\ home = NoHome

NextTwoSessions ==
  \/ \E s \in Sess : \E a \in queries : ListRequest(s, a)
  \/ \E s \in Sess : NoKeyStep(s)
  \/ \E s \in Sess : CallStep(s)
  \/ \E s \in Sess : AfterPrimary(s)
  \/ \E s \in Sess : AfterSecondary(s)

SpecTwoSessions == InitTwoSessions /\ [][NextTwoSessions]_vars

\* ------------------------------------- helper functions on their own
\* _cache_key(...) is called for a and for b.
CacheKeyCalls ==
  /\ probe.fn = "cache_key" /\ ~probe.done
  /\ probe' = [probe EXCEPT
                 !.done = TRUE,
                 !.ka = CacheKey(probe.a.ingredients, probe.a.diet, probe.a.number),
                 !.kb = CacheKey(probe.b.ingredients, probe.b.diet, probe.b.number)]
  /\ UNCHANGED <<Client, home, queries, artifacts, rec_ret>>

\* _is_fresh(ts) is called at time t.
IsFreshCall ==
  /\ probe.fn = "is_fresh" /\ ~probe.done
  /\ probe' = [probe EXCEPT !.done = TRUE, !.fresh = IsFresh(probe.ts, probe.t)]
  /\ UNCHANGED <<Client, home, queries, artifacts, rec_ret>>

\* _fix_image_url(val, rid, image_type) is called.
FixImageCall ==
  /\ probe.fn = "fix_image" /\ ~probe.done
  /\ probe' = [probe EXCEPT
                 !.done = TRUE,
                 !.img.url = FixImageUrl(probe.img.val, probe.img.rid, probe.img.image_type)]
  /\ UNCHANGED <<Client, home, queries, artifacts, rec_ret>>

\* The diet handling of an online list request (lines 371-372, 398-399).
DietParamCall ==
  /\ probe.fn = "diet_param" /\ ~probe.done
  /\ probe' = [probe EXCEPT !.done = TRUE, !.diet.sent = DietParam(probe.diet.given)]
  /\ UNCHANGED <<Client, home, queries, artifacts, rec_ret>>

\* Two online list requests, for a and for b, each up to its query: the cache
\* key (line 377) and the ingredients of the query (lines 391, 431).
QueryCall ==
  /\ probe.fn = "query" /\ ~probe.done
  /\ probe' = [probe EXCEPT
                 !.done = TRUE,
                 !.ka = OnlineKey(probe.a),
                 !.kb = OnlineKey(probe.b),
                 !.qa = QueryIngredients(probe.a.ingredients),
                 !.qb = QueryIngredients(probe.b.ingredients)]
  /\ UNCHANGED <<Client, home, queries, artifacts, rec_ret>>

\* The recipe client with an empty pool and nobody asking.
ClientAtRest == InitWith({1}, {MissingFile}) /\ KEYS = <<>>

InitFn ==
  /\ ClientAtRest
  /\ queries = Args /\ artifacts = NoArtifacts /\ rec_ret = NoRec /\ home = NoHome
  /\ \/ \E x, y \in KeyInputs :
          probe = [NoProbe EXCEPT !.fn = "cache_key", !.a = x, !.b = y]
     \/ \E x, y \in 0..(2 * MaxTime) :
          probe = [NoProbe EXCEPT !.fn = "is_fresh", !.ts = x, !.t = y]
     \/ \E val \in ImageVals : \E rid \in RidVals : \E ty \in ImageTypes :
          probe = [NoProbe EXCEPT
                     !.fn = "fix_image",
                     !.img = [val |-> val, rid |-> rid, image_type |-> ty, url |-> None]]
     \/ \E d \in DietArgs :
          probe = [NoProbe EXCEPT !.fn = "diet_param", !.diet.given = d]
     \/ \E x, y \in QueryLists :
          probe = [NoProbe EXCEPT !.fn = "query",
                                  !.a = [ingredients |-> x, diet |-> None, number |-> 10],
                                  !.b = [ingredients |-> y, diet |-> None, number |-> 10]]

NextFn == CacheKeyCalls \/ IsFreshCall \/ FixImageCall \/ DietParamCall \/ QueryCall

SpecFn == InitFn /\ [][NextFn]_vars

\* ------------------------------------------------------- recommender
\* The model follows the artifacts through any number of training runs up to
\* one call of the recommender, whose result it keeps.
\* train_recipe_model(recipes_csv) on corpus c, ending at `stop`.
Train(c, stop) ==
  /\ rec_ret = NoRec
  /\ artifacts' = Trained(artifacts, c, stop)
  /\ UNCHANGED <<Client, home, queries, probe, rec_ret>>

\* recommend_from_pantry(pantry_items, top_k, diet)
Recommend(pantry, top_k, diet) ==
  /\ rec_ret = NoRec
  /\ \E tie \in Ties :
       rec_ret' = [ caller |-> "recommend", pantry |-> pantry, top_k |-> top_k, diet |-> diet,
                    out |-> RecommendFromPantry(artifacts, pantry, top_k, diet, tie) ]
  /\ UNCHANGED <<Client, home, queries, probe, artifacts>>

\* suggest_recipes_from_inventory(inventory_df, top_k, diet): the names of the
\* Product_Name column without the missing ones, handed to the recommender;
\* what that returns or raises is what this returns or raises.
Suggest(column, top_k, diet) ==
  /\ rec_ret = NoRec
  /\ \E tie \in Ties :
       rec_ret' = [ caller |-> "suggest", pantry |-> DropNa(column), top_k |-> top_k,
                    diet |-> diet,
                    out |-> RecommendFromPantry(artifacts, DropNa(column), top_k, diet, tie) ]
  /\ UNCHANGED <<Client, home, queries, probe, artifacts>>

InitReco ==
  /\ ClientAtRest
  /\ queries = Args /\ probe = NoProbe
  /\ artifacts = NoArtifacts /\ rec_ret = NoRec /\ home = NoHome

NextReco ==
  \/ \E c \in Corpora : \E stop \in TrainStops : Train(c, stop)
  \/ \E p \in SeqsUpTo(PantryNames, MaxPantry) : \E k \in TopKs : \E d \in RecDiets :
       Recommend(p, k, d)
  \/ \E col \in SeqsUpTo(PantryNames \cup {NaN}, MaxPantry) : \E k \in TopKs :
       \E d \in RecDiets : Suggest(col, k, d)

SpecReco == InitReco /\ [][NextReco]_vars

\* --------------------------------------- the Budget and Inventory pages
\* One run of the "Plan & Track" tab after the budget input (lines 787-816):
\* the planned total of the (empty) shopping list plus the extra amount goes
\* into the budget state, the month's ledger total is read for the "Spent"
\* figures, record_spend(b, 0.0) is called, and the status is shown.
PlanAndTrack(h) ==
  LET planned_from_list == 0
      total_planned     == planned_from_list + h.extra_planned_inr
      planned           == [h.budget EXCEPT !.planned_spend = Max2(0, total_planned)]
      ms                == MonthSummary(h.txns, h.today.m, h.today.y)
      b                 == [planned EXCEPT !.spent_this_month = @ + Max2(0, 0)]
      status            == CheckBudgetStatus(b)
  IN [h EXCEPT !.budget = b,
               !.view = [ shown     |-> TRUE,
                          budget    |-> status.monthly_budget,
                          spent     |-> ms.spent,
                          planned   |-> total_planned,
                          remaining |-> status.remaining,
                          status    |-> status.status ]]

\* "Save budget": set_budget(b, new_budget), and the rest of the run.
SaveBudget(new_budget) ==
  /\ home.menu = "Budget"
  /\ home' = PlanAndTrack([home EXCEPT !.budget.monthly_budget = Max2(0, new_budget)])
  /\ UNCHANGED <<Client, queries, probe, artifacts, rec_ret>>

\* "Additional planned" is changed: the page runs again.
SetExtraPlanned(extra_plan) ==
  /\ home.menu = "Budget"
  /\ home' = PlanAndTrack([home EXCEPT !.extra_planned_inr = extra_plan])
  /\ UNCHANGED <<Client, queries, probe, artifacts, rec_ret>>

\* "Add purchase": add_txn(date, item, qty, unit, amt, note) appends a row to
\* the ledger, and st.rerun() runs the page again.
AddPurchase(date, amt) ==
  /\ home.menu = "Budget"
  /\ Len(home.txns) < MaxTxns
  /\ home' = PlanAndTrack([home EXCEPT
                             !.txns = Append(@, [date |-> date, amount_inr |-> amt])])
  /\ UNCHANGED <<Client, queries, probe, artifacts, rec_ret>>

\* add_item(df, item) for an item without a Product_ID: the id is the wall
\* clock in milliseconds at the call, which is at or after the clock of the
\* call before.  A row is (Product_ID, Product_Name, quantity_on_hand).
AddItem(name, qty) ==
  /\ home.menu = "Inventory"
  /\ Len(home.inventory) < MaxItems
  /\ \E t \in home.clock_ms..MaxMs :
       home' = [home EXCEPT
                  !.clock_ms = t,
                  !.inventory = Append(@, [ Product_ID |-> t, Product_Name |-> name,
                                            quantity_on_hand |-> qty ])]
  /\ UNCHANGED <<Client, queries, probe, artifacts, rec_ret>>

\* update_qty(df, product_id, new_qty): every row the mask selects is set.
UpdateQty(product_id, new_qty) ==
  /\ home.menu = "Inventory"
  /\ home' = [home EXCEPT
                !.inventory = [ i \in 1..Len(@) |->
                                  IF @[i].Product_ID = product_id
                                  THEN [@[i] EXCEPT !.quantity_on_hand = new_qty]
                                  ELSE @[i] ]]
  /\ UNCHANGED <<Client, queries, probe, artifacts, rec_ret>>

\* delete_item(df, product_id): the rows whose id differs are kept.
DeleteItem(product_id) ==
  /\ home.menu = "Inventory"
  /\ home' = [home EXCEPT
                !.inventory = SelectSeq(@, LAMBDA row : row.Product_ID # product_id)]
  /\ UNCHANGED <<Client, queries, probe, artifacts, rec_ret>>

\* One of the two pages is open, the Budget page on 2026-11 or the Inventory
\* page with the clock at 1 ms.
InitHome ==
  /\ ClientAtRest
  /\ queries = Args /\ probe = NoProbe /\ artifacts = NoArtifacts /\ rec_ret = NoRec
  /\ \/ home = [NoHome EXCEPT !.menu = "Budget"]
     \/ home = [NoHome EXCEPT !.menu = "Inventory", !.clock_ms = 1]

NextHome ==
  \/ \E new_budget \in {0, 2, 20} : SaveBudget(new_budget)
  \/ \E extra_plan \in {0, 1, 19} : SetExtraPlanned(extra_plan)
  \/ \E date \in {home.today, [m |-> 10, y |-> 2026], [m |-> 11, y |-> 2025]} :
       \E amt \in {0, 2} : AddPurchase(date, amt)
  \/ \E name \in {"Rice", "Dal"} : \E qty \in {1, 5} : AddItem(name, qty)
  \/ \E product_id \in 1..MaxMs : \E new_qty \in {5, 9} : UpdateQty(product_id, new_qty)
  \/ \E product_id \in 1..MaxMs : DeleteItem(product_id)

SpecHome == InitHome /\ [][NextHome]_vars

\* ================================================================ claims
\* The rotate signals as the specification lists them.
RotateSignalOut(out) == out.kind = "exc" \/ (out.kind = "resp" /\ out.status \in {401, 402, 429})

\* Slot j (counted from 0) after `start`, circularly, in a pool of n keys.
SlotAfter(start, j, n) == (start + j) % n

\* ---------------------------------------------------------------- C1
C1_Step ==
  \A s \in Sess :
    /\ \A out \in OutcomesFor(s) :
         Attempt(s, out) =>
           IF RotateSignalOut(out)
           THEN /\ key_index'[s] = (key_index[s] + 1) % Len(KEYS)
                /\ pc'[s] \in InCall => CurrentKey(KEYS', key_index'[s])
                                          = KEYS[SlotAfter(key_index[s], 1, Len(KEYS)) + 1]
           ELSE /\ key_index'[s] = key_index[s]
                /\ pc'[s] \in AfterCall
                /\ call'[s].resp = out
    /\ (key_index'[s] # key_index[s]) => pc[s] \in InCall

C1_State ==
  \A s \in Sess :
    /\ (pc[s] \in InCall /\ call[s].tried = <<>> /\ Len(KEYS) > 0)
         => call[s].start = key_index[s]
    /\ (pc[s] \in AfterCall /\ call[s].resp.kind = "resp")
         => /\ key_index[s] = SlotAfter(call[s].start, Len(call[s].tried) - 1, Len(KEYS))
            /\ (Len(KEYS) = 3 /\ call[s].start = 0 /\ Len(call[s].tried) = 3)
                 => (key_index[s] = 2 /\ call[s].tried = <<KEYS[1], KEYS[2], KEYS[3]>>)

\* C1: an attempt that gets 401, 402, 429 or a network failure moves the key
\* index to (index + 1) mod len(pool) and the next attempt uses that key; any
\* other response is returned with the index on the key that got it (pool of
\* 3 from slot 0, two rotate signals, then a response: the index is 2), and
\* the index moves at no other time, so the next call starts there.
C1_KeyRotation == []C1_State /\ [][C1_Step]_vars

C1_Witness ==
  \E s \in Sess :
    /\ Len(KEYS) = 3 /\ pc[s] = "primary_ret"
    /\ call[s].start = 0 /\ Len(call[s].tried) = 3
    /\ call[s].resp.kind = "resp" /\ call[s].resp.status = 200
    /\ key_index[s] = 2

\* ---------------------------------------------------------------- C2
\* C2: a call in which every attempt fails returns the "no response" sentinel
\* with the key index back at its value at the start of the call, after
\* exactly len(pool) attempts (none for an empty pool); a rotate-signal
\* response is never what the call returns.
C2_AllFail ==
  \A s \in Sess :
    /\ pc[s] \in AfterCall =>
         \/ /\ call[s].resp = NoResponse
            /\ key_index[s] = call[s].start
            /\ Len(call[s].tried) = Len(KEYS)
         \/ /\ call[s].resp.kind = "resp"
            /\ call[s].resp.status \notin {401, 402, 429}
    /\ Len(KEYS) = 0 => (key_index[s] = 0 /\ req[s].attempts = 0 /\ ret[s].attempts = 0)

C2_Witness ==
  \E s \in Sess :
    /\ Len(KEYS) = 3 /\ pc[s] \in AfterCall
    /\ call[s].resp = NoResponse
    /\ call[s].start = 1 /\ key_index[s] = 1

\* ---------------------------------------------------------------- C3
\* C3: the key index is in [0, len(pool)) when the pool is non-empty, and 0
\* when it is empty.
C3_IndexInRange ==
  \A s \in Sess :
    IF Len(KEYS) > 0 THEN key_index[s] \in 0..(Len(KEYS) - 1) ELSE key_index[s] = 0

C3_Witness ==
  \E s \in Sess :
    /\ Len(KEYS) = 3 /\ key_index[s] = 2
    /\ pc[s] = "idle" /\ req[s].op = "detail" /\ ret[s].attempts = 3

\* ---------------------------------------------------------------- C4
C4_State ==
  \A s \in Sess :
    pc[s] \in InCall \cup AfterCall =>
      /\ Len(call[s].tried) <= Len(KEYS)
      /\ call[s].left = Max2(1, Len(KEYS)) - Max2(Len(call[s].tried),
                                                   IF pc[s] \in AfterCall THEN 1 ELSE 0)
      /\ \A j \in 1..Len(call[s].tried) :
           call[s].tried[j] = KEYS[SlotAfter(call[s].start, j - 1, Len(KEYS)) + 1]
      /\ \A i, j \in 1..Len(call[s].tried) :
           call[s].tried[i] = call[s].tried[j] => i = j

\* A failed attempt (exception or timeout) is an attempt like one that got
\* 401, 402 or 429: same budget left, same rotation, same state after it.
C4_Step ==
  \A s \in Sess :
    /\ \A st \in {401, 402, 429} : Attempt(s, Exc) <=> Attempt(s, Resp(st, "bad", <<>>))
    /\ Attempt(s, Exc) =>
         /\ call'[s].left = call[s].left - 1
         /\ req'[s].attempts = req[s].attempts + 1
         /\ key_index'[s] = (key_index[s] + 1) % Len(KEYS)

\* C4: one call of call_spoonacular makes at most len(pool) attempts, one per
\* key, in circular order from the index it started at; an attempt that timed
\* out or raised uses up one unit of that budget like a rotate status.
C4_RetryBudget == []C4_State /\ [][C4_Step]_vars

C4_Witness ==
  \E s \in Sess :
    /\ Len(KEYS) = 3 /\ pc[s] \in AfterCall
    /\ call[s].start = 1
    /\ call[s].tried = <<KEYS[2], KEYS[3], KEYS[1]>>

\* ---------------------------------------------------------------- C5
ListReturns == {"r367", "r369", "r382", "r421", "r424", "r455", "r457", "r462"}

\* C5: whatever the provider did during a list request, the request returns
\* (through one of its return statements, not an exception) a recipe list
\* with at least one entry.
C5_ListNeverFails ==
  \A s \in Sess :
    (pc[s] = "idle" /\ req[s].op = "list") =>
      /\ ret[s].via \in ListReturns
      /\ Len(ret[s].list) >= 1

C5_Witness ==
  \E s \in Sess :
    /\ pc[s] = "idle" /\ req[s].op = "list" /\ Len(KEYS) = 3
    /\ ret[s].via = "r462" /\ ret[s].attempts = 6
    /\ ret[s].list \in {BuiltinRecipes, DemoFileRecipes}

\* ---------------------------------------------------------------- C6
DemoLists == {BuiltinRecipes, DemoFileRecipes}

Persisted(k) == listCache.kind = "doc" /\ k \in DOMAIN listCache.items

NonEmpty200(r) == r.kind = "resp" /\ r.status = 200 /\ r.parse = "ok" /\ r.body # <<>>

C6_Step ==
  \A s \in Sess :
    LET k      == req[s].key
        failed == \/ pc[s] = "primary_ret" /\ call[s].resp = NoResponse
                  \/ pc[s] = "secondary_ret" /\ ~NonEmpty200(call[s].resp)
    IN (failed /\ pc'[s] # pc[s]) =>
         /\ pc'[s] = "idle"
         /\ IF Persisted(k)
            THEN /\ now - listCache.items[k].ts > CACHE_TTL_DAYS
                 /\ ret'[s].list = listCache.items[k].data
                 /\ ret'[s].list \notin DemoLists
            ELSE ret'[s].list \in DemoLists

\* C6: when the provider fails totally or both strategies fail, the list
\* request returns the payload of the entry persisted for its key (which is
\* then older than the TTL) and not the offline catalog; with no entry for
\* the key it returns the offline catalog defaults.
C6_StaleOnFailure == [][C6_Step]_vars

C6_Witness ==
  \E s \in Sess :
    /\ pc[s] = "idle" /\ req[s].op = "list" /\ ret[s].via = "r462"
    /\ Persisted(req[s].key)
    /\ now - listCache.items[req[s].key].ts > CACHE_TTL_DAYS
    /\ ret[s].list = listCache.items[req[s].key].data

\* ---------------------------------------------------------------- C7
FreshPersisted(k) == Persisted(k) /\ now - listCache.items[k].ts <= CACHE_TTL_DAYS

C7_Step ==
  \A s \in Sess : \A a \in Args :
    (offline_mode[s] /\ ListRequest(s, a)) =>
      /\ pc'[s] = "idle" /\ call'[s] = NoCall
      /\ ret'[s].attempts = 0
      /\ key_index' = key_index
      /\ listCache' = listCache /\ detailCache' = detailCache
      /\ IF FreshPersisted(req'[s].key)
         THEN ret'[s].list = listCache.items[req'[s].key].data
         ELSE ret'[s].list \in DemoLists

\* C7: a list request in offline mode makes no network attempt and changes
\* neither the key index nor the cache; it returns the payload of a fresh
\* entry for its key if there is one and else the offline catalog defaults,
\* never a stale entry; no list request is at the provider while offline.
C7_OfflineNoNetwork ==
  [](\A s \in Sess : (offline_mode[s] /\ req[s].op = "list") => pc[s] = "idle")
    /\ [][C7_Step]_vars

C7_Witness ==
  \E s \in Sess :
    /\ pc[s] = "idle" /\ offline_mode[s] /\ req[s].op = "list"
    /\ ret[s].via = "r369" /\ ret[s].attempts = 0
    /\ Persisted(req[s].key) /\ ~FreshPersisted(req[s].key)

\* ---------------------------------------------------------------- C8
C8_Step ==
  \A s \in Sess : \A a \in Args :
    (~offline_mode[s] /\ ListRequest(s, a) /\ FreshPersisted(req'[s].key)) =>
      /\ pc'[s] = "idle" /\ call'[s] = NoCall
      /\ key_index' = key_index
      /\ ret'[s] = [via |-> "r382", list |-> listCache.items[req'[s].key].data,
                    detail |-> NoDetail, attempts |-> 0]

\* A list request that is at the provider has read the cache and found no
\* fresh entry for its key.
C8_State ==
  \A s \in Sess :
    (pc[s] \in InCall \cup AfterCall /\ req[s].op = "list") =>
      /\ req[s].blob.kind = "doc"
      /\ req[s].blob.items = (IF listCache.kind = "doc" THEN listCache.items ELSE EmptyMap)
      /\ ~FreshPersisted(req[s].key)

\* C8: online, a list request that finds a fresh entry for its key returns
\* that payload with zero network attempts; the cache read comes before any
\* network attempt, so a repeated request within the TTL of a cached fetch
\* uses no provider call.
C8_FreshHitNoNetwork == []C8_State /\ [][C8_Step]_vars

C8_Witness ==
  \E s \in Sess :
    /\ pc[s] = "idle" /\ ~offline_mode[s] /\ req[s].op = "list"
    /\ ret[s].via = "r382" /\ ret[s].attempts = 0
    /\ Persisted(req[s].key)
    /\ now - listCache.items[req[s].key].ts = CACHE_TTL_DAYS
    /\ ret[s].list = listCache.items[req[s].key].data

\* ---------------------------------------------------------------- C9
C9_Step ==
  (listCache' # listCache) =>
    \E s \in Sess :
      /\ pc[s] \in {"primary_ret", "secondary_ret"}
      /\ NonEmpty200(call[s].resp)
      /\ pc'[s] = "idle"
      /\ ret'[s].via \in {"r421", "r455"}
      /\ Len(ret'[s].list) = Len(call[s].resp.body)

C9_State ==
  listCache.kind = "doc" =>
    \A k \in DOMAIN listCache.items : Len(listCache.items[k].data) >= 1

\* C9: the persisted list cache changes only in the step in which a list
\* request returns the non-empty normalized result of a status-200 answer;
\* every entry in it has a non-empty payload.
C9_WriteOnlyOnSuccess == []C9_State /\ [][C9_Step]_vars

C9_Witness ==
  \E s \in Sess :
    /\ pc[s] = "idle" /\ ret[s].via = "r455"
    /\ Persisted(req[s].key)
    /\ listCache.items[req[s].key] = [ts |-> now, data |-> ret[s].list]

\* --------------------------------------------------------------- C10
C10_Step ==
  \A s \in Sess : \A a \in Args :
    (ListRequest(s, a) /\ listCache.kind # "doc") =>
      /\ ret'[s].via \notin {"x364", "x379"}
      /\ IF offline_mode[s]
         THEN pc'[s] = "idle" /\ ret'[s].list \in DemoLists
         ELSE pc'[s] = "primary" /\ req'[s].blob = Doc(EmptyMap)

\* C10: whatever the state of the list-cache file (missing, unreadable, not
\* JSON, JSON of another shape), a list request goes on as with an empty
\* cache and raises nothing.
C10_AnyStoreIsAMiss == [][C10_Step]_vars

\* --------------------------------------------------------------- C11
\* Names that differ in letter case only.
CaseClasses == { {"Egg", "egg"}, {"Milk", "milk"}, {"Vegan", "vegan"}, {"Keto", "keto"} }

SameUpToCase(x, y) == x = y \/ \E c \in CaseClasses : {x, y} \subseteq c

\* L and M hold the same names up to case, each as often as the other.
PermUpToCase(L, M) ==
  /\ Len(L) = Len(M)
  /\ \A x \in Range(L) \cup Range(M) :
       Cardinality({ i \in 1..Len(L) : SameUpToCase(L[i], x) })
         = Cardinality({ i \in 1..Len(M) : SameUpToCase(M[i], x) })

\* C11: two ingredient lists that are permutations of each other up to letter
\* case, with diets equal up to case and the same count, get the same cache
\* key from _cache_key.
C11_KeyOrderCaseInvariant ==
  ( /\ probe.fn = "cache_key" /\ probe.done
    /\ PermUpToCase(probe.a.ingredients, probe.b.ingredients)
    /\ SameUpToCase(probe.a.diet, probe.b.diet)
    /\ probe.a.number = probe.b.number )
  => probe.ka = probe.kb

C11_Witness ==
  /\ probe.fn = "cache_key" /\ probe.done
  /\ probe.a = [ingredients |-> <<"Egg", "milk">>, diet |-> "vegan", number |-> 10]
  /\ probe.b = [ingredients |-> <<"milk", "egg">>, diet |-> "Vegan", number |-> 10]
  /\ probe.ka = probe.kb
  /\ probe.ka.norm = <<"egg", "milk">>

\* --------------------------------------------------------------- C12
\* C12: two ingredient lists with the same set of names, whatever the
\* multiplicities, with the same diet and count, get the same cache key.
C12_KeyFromNameSet ==
  ( /\ probe.fn = "cache_key" /\ probe.done
    /\ Range(probe.a.ingredients) = Range(probe.b.ingredients)
    /\ probe.a.diet = probe.b.diet
    /\ probe.a.number = probe.b.number )
  => probe.ka = probe.kb

\* --------------------------------------------------------------- C13
\* C13: _is_fresh depends on the timestamp and the time of the call only, and
\* its boundary is inclusive: an entry stamped at the time of the call is
\* fresh, one stamped exactly 3 days before is fresh, one stamped 3 days and
\* one unit before is not; it is fresh exactly up to an age of 3 days.
C13_FreshBoundary ==
  (probe.fn = "is_fresh" /\ probe.done) =>
    /\ (probe.t - probe.ts = 0) => probe.fresh
    /\ (probe.t - probe.ts = 3) => probe.fresh
    /\ (probe.t - probe.ts = 3 + 1) => ~probe.fresh
    /\ probe.fresh <=> (probe.t - probe.ts <= 3)

C13_Witness ==
  /\ probe.fn = "is_fresh" /\ probe.done
  /\ probe.ts = 1 /\ probe.t = 4 /\ probe.fresh

\* --------------------------------------------------------------- C14
\* The return statements of a list request that has no network result: the
\* offline branch's fallback, and the three fallbacks after failed attempts.
NoNetworkReturns == {"r369", "r424", "r457", "r462"}

\* C14: a list request without a cache entry for its key that is offline, or
\* whose attempts all failed, returns the offline catalog defaults, and these
\* have at least 3 entries, each with a non-empty title, whatever the state
\* of the demo dataset file.
C14_OfflineDefaults ==
  \A s \in Sess :
    ( /\ pc[s] = "idle" /\ req[s].op = "list"
      /\ ret[s].via \in NoNetworkReturns
      /\ ~Persisted(req[s].key) )
    => /\ ret[s].list \in DemoLists
       /\ Len(ret[s].list) >= 3
       /\ \A i \in 1..Len(ret[s].list) : ret[s].list[i].title # ""

\* --------------------------------------------------------------- C15
\* The entries a reader finds in the persisted list cache.
PersistedItems == IF listCache.kind = "doc" THEN listCache.items ELSE EmptyMap

C15_Step ==
  \A s \in Sess :
    LET k       == req[s].key
        fetched == /\ pc[s] \in {"primary_ret", "secondary_ret"} /\ pc'[s] = "idle"
                   /\ ret'[s].via \in {"r421", "r455"}
        put     == Doc([x \in DOMAIN PersistedItems \cup {k} |->
                          IF x = k THEN [ts |-> now, data |-> ret'[s].list]
                          ELSE PersistedItems[x]])
    IN fetched =>
         \/ listCache' = put
         \/ listCache' \in {listCache, CorruptFile}   \* the write did not complete

\* C15: the cache document a successful fetch for key k writes is the
\* persisted one with k's entry replaced by (now, the fetched payload),
\* nothing of an older entry for k kept, and the entry of every other key as
\* it was; a write that does not complete (C28) puts no other document there.
C15_PutReplacesOneEntry == [][C15_Step]_vars

C15_Witness ==
  \E s \in Sess : \E k2 \in DOMAIN PersistedItems :
    /\ pc[s] = "idle" /\ ret[s].via \in {"r421", "r455"}
    /\ Persisted(req[s].key) /\ k2 # req[s].key
    /\ listCache.items[req[s].key] = [ts |-> now, data |-> ret[s].list]
    /\ now > CACHE_TTL_DAYS
    /\ listCache.items[k2].ts < now
    /\ listCache.items[k2].data # ret[s].list

\* --------------------------------------------------------------- C16
C16_Step ==
  \A s \in Sess :
    /\ \A i \in RecipeIds \ {0} :
         \* a request for a persisted record is answered from it, at any time
         /\ (DetailRequest(s, i) /\ detailCache[i].kind = "doc") =>
              /\ pc'[s] = "idle" /\ call'[s] = NoCall
              /\ key_index' = key_index
              /\ ret'[s] = [via |-> "r470", list |-> <<>>, detail |-> detailCache[i].val,
                            attempts |-> 0]
         \* and the persisted record stays as it is
         /\ detailCache[i].kind = "doc" => detailCache'[i] = detailCache[i]
    \* the record a provider answer gave is the one persisted
    /\ (pc[s] = "detail_ret" /\ pc'[s] = "idle" /\ ret'[s].via = "r502") =>
         \/ detailCache'[req[s].rid] = [kind |-> "doc", val |-> ret'[s].detail]
         \/ detailCache'[req[s].rid] \in {detailCache[req[s].rid], CorruptDetailFile}

\* C16: the record a detail request got from the provider is persisted under
\* its id and never expires: whatever the clock says, every later detail
\* request for the id returns that same record with no network attempt, and
\* nothing ever changes or removes the persisted record.
C16_DetailsNeverExpire == [][C16_Step]_vars

C16_Witness ==
  \E s \in Sess :
    /\ pc[s] = "idle" /\ req[s].op = "detail" /\ req[s].rid = 1
    /\ ret[s].via = "r470" /\ ret[s].attempts = 0
    /\ ret[s].detail = [id |-> 1, title |-> "Dal", src |-> "api"]
    /\ detailCache[1] = [kind |-> "doc", val |-> ret[s].detail]
    /\ now > CACHE_TTL_DAYS

\* --------------------------------------------------------------- C17
\* The provider's answer to a detail request is no parseable status-200 body.
DetailFailed(r) ==
  \/ r.kind = "none"
  \/ r.kind = "resp" /\ r.status # 200
  \/ r.kind = "resp" /\ r.status = 200 /\ r.parse # "ok"

C17_Step ==
  \A s \in Sess :
    (pc[s] = "detail_ret" /\ DetailFailed(call[s].resp) /\ pc'[s] # pc[s]) =>
      /\ pc'[s] = "idle"
      /\ ret'[s].via \in {"r481", "r504"}
      /\ ret'[s].detail = NoDetail
      /\ detailCache' = detailCache /\ listCache' = listCache

\* C17: a detail request whose provider step failed (no response from any
\* key, a status other than 200, or a body that cannot be parsed) returns
\* None through a return statement, and writes no file; a detail request
\* never ends in an exception.
C17_DetailFailureIsAbsent ==
  [](\A s \in Sess : (pc[s] = "idle" /\ req[s].op = "detail")
                        => ret[s].via \in {"none", "r465", "r470", "r474", "r481", "r502", "r504"})
    /\ [][C17_Step]_vars

C17_Witness ==
  \E s \in Sess :
    /\ pc[s] = "idle" /\ req[s].op = "detail" /\ req[s].rid = 1
    /\ ret[s].via = "r504" /\ ret[s].detail = NoDetail /\ ret[s].attempts >= 1
    /\ detailCache[1].kind = "missing"

\* --------------------------------------------------------------- C18
SomeArtifactAbsent ==
  ~artifacts.vect.present \/ ~artifacts.matrix.present \/ ~artifacts.map.present

\* C18: with at least one of the three artifacts absent, a call of
\* recommend_from_pantry, direct or through suggest_recipes_from_inventory,
\* raises the "model not trained" error (line 49) and returns no rows,
\* whatever the pantry, the empty one included.
C18_ModelNotTrained ==
  (rec_ret.caller # "none" /\ SomeArtifactAbsent) =>
    rec_ret.out = [via |-> "x49", rows |-> <<>>]

C18_Witness ==
  /\ rec_ret.caller = "suggest" /\ rec_ret.pantry = <<>>
  /\ artifacts.vect.present /\ artifacts.matrix.present /\ ~artifacts.map.present
  /\ rec_ret.out.via = "x49"

\* --------------------------------------------------------------- C19
\* C19: when a diet is asked for and the catalog has a diet_tag column, every
\* row the recommender returns carries a tag equal to the diet up to letter
\* case, for every pantry (the empty one included) and every top_k.
C19_DietFilter ==
  ( /\ rec_ret.caller # "none" /\ rec_ret.out.via \in {"r57", "r69"}
    /\ rec_ret.diet # None /\ artifacts.map.has_diet )
  => \A i \in 1..Len(rec_ret.out.rows) :
       /\ rec_ret.out.rows[i].diet # NaN
       /\ SameUpToCase(rec_ret.out.rows[i].diet, rec_ret.diet)

\* --------------------------------------------------------------- C20
\* A pantry with at least one name that is not blank.
NonEmptyPantry(p) == \E i \in 1..Len(p) : p[i] \notin {"", " "}

\* The catalog rows (by position) the request's diet lets through.
EligibleRows ==
  { i \in 1..Len(artifacts.map.rows) :
      \/ rec_ret.diet = None
      \/ ~artifacts.map.has_diet
      \/ /\ artifacts.map.rows[i].diet # NaN
         /\ SameUpToCase(artifacts.map.rows[i].diet, rec_ret.diet) }

RowScore(i) ==
  Sim(PantryQuery(rec_ret.pantry), artifacts.vect.vocab, artifacts.matrix.w[i])

Min2(a, b) == IF a <= b THEN a ELSE b

\* One complete training run produced all three artifacts.
TrainedInOneRun ==
  /\ ~SomeArtifactAbsent
  /\ \E c \in Corpora : artifacts = Trained(NoArtifacts, c, "done")

C21_EmptyPantryHead ==
  (rec_ret.caller # "none" /\ ~NonEmptyPantry(rec_ret.pantry) /\ ~SomeArtifactAbsent) =>
    /\ rec_ret.out.via = "r57"
    /\ Len(rec_ret.out.rows) = Min2(rec_ret.top_k, Len(artifacts.map.rows))
    /\ \A j \in 1..Len(rec_ret.out.rows) :
         rec_ret.out.rows[j] = [ id |-> artifacts.map.rows[j].id,
                                 diet |-> artifacts.map.rows[j].diet,
                                 score |-> 0 ]

C21_Witness ==
  /\ rec_ret.caller = "recommend" /\ rec_ret.pantry = <<" ", " ">>
  /\ rec_ret.top_k = 2 /\ rec_ret.out.via = "r57"
  /\ Len(artifacts.map.rows) = 4
  /\ Len(rec_ret.out.rows) = 2
  /\ rec_ret.out.rows[1].id = 1 /\ rec_ret.out.rows[2].id = 2

\* --------------------------------------------------------------- C22
\* The image values that are absolute URLs, and those that are bare file
\* names (a name without a path), blanks around them not counted.
AbsoluteUrls == {"https://x.io/a.jpg", "http://x.io/a.png", "data:image/png;base64,AA=="}
BareNames == {"abc.jpg", "abc.jpeg", "abc.png", "abc.webp", "abc.JPG"}

Trimmed(val) ==
  CASE val = " abc.jpg" -> "abc.jpg"
    [] val = " https://x.io/a.jpg " -> "https://x.io/a.jpg"
    [] OTHER -> val

\* C22: _fix_image_url returns an absolute URL as it is; else a bare file
\* name, whatever the name, prefixed with the CDN base path; else, with id and
\* image type both known, <cdn-base>/<id>-556x370.<type>; else nothing. What it
\* returns is never the non-absolute value it was given.
C22_ImageResolution ==
  (probe.fn = "fix_image" /\ probe.done) =>
    LET val == Trimmed(probe.img.val)
        rid == probe.img.rid
        ty  == probe.img.image_type
    IN /\ probe.img.url =
            ( IF val \in AbsoluteUrls THEN val
              ELSE IF val \in BareNames THEN "https://img.spoonacular.com/recipes/" \o val
              ELSE IF rid = "123" /\ ty \in {"jpg", "png"}
              THEN "https://img.spoonacular.com/recipes/123-556x370." \o ty
              ELSE None )
       /\ probe.img.url \notin (ImageVals \ (AbsoluteUrls \cup {None}))

\* --------------------------------------------------------------- C23
\* The document with k's entry set to (now, data), the other entries as
\* persisted.
PutPersisted(k, data) ==
  Doc([x \in DOMAIN PersistedItems \cup {k} |->
         IF x = k THEN [ts |-> now, data |-> data] ELSE PersistedItems[x]])

\* The summaries of a provider body, one per record in order, for `endpoint`.
SummariesOf(body, endpoint) ==
  [i \in 1..Len(body) |-> [id |-> body[i].id, title |-> body[i].title, src |-> endpoint]]

C23_Step ==
  \A s \in Sess :
    \* a non-empty status-200 result of the primary strategy: save, return
    /\ (pc[s] = "primary_ret" /\ NonEmpty200(call[s].resp) /\ pc'[s] # pc[s]) =>
         /\ pc'[s] = "idle"
         /\ ret'[s] = [via |-> "r421",
                       list |-> SummariesOf(call[s].resp.body, "complexSearch"),
                       detail |-> NoDetail, attempts |-> req[s].attempts]
         /\ \/ listCache' = PutPersisted(req[s].key, ret'[s].list)
            \/ listCache' \in {listCache, CorruptFile}   \* the write did not complete
    \* the order of the strategies within a request
    /\ (pc'[s] = "primary" /\ pc[s] # "primary") => pc[s] = "idle"
    /\ (pc'[s] = "primary_ret" /\ pc[s] # "primary_ret") => pc[s] = "primary"
    /\ (pc'[s] = "secondary" /\ pc[s] # "secondary") =>
         (pc[s] = "primary_ret" /\ ~NonEmpty200(call[s].resp) /\ req'[s] = req[s])
    /\ (pc'[s] = "secondary_ret" /\ pc[s] # "secondary_ret") => pc[s] = "secondary"

\* C23: a status-200 answer of complexSearch with a non-empty normalized
\* result ends the list request: the result is written to the cache under the
\* request's key (a write that does not complete is C28) and returned, and
\* findByIngredients is not attempted; findByIngredients is attempted only
\* after complexSearch has answered in the same request.
C23_PrimaryHitEndsRequest == [][C23_Step]_vars

C23_Witness ==
  \E s \in Sess :
    /\ pc[s] = "idle" /\ req[s].op = "list" /\ ret[s].via = "r421"
    /\ Len(KEYS) = 3 /\ ret[s].attempts = 2
    /\ Persisted(req[s].key)
    /\ listCache.items[req[s].key] = [ts |-> now, data |-> ret[s].list]
    /\ ret[s].list[1].src = "complexSearch"

\* --------------------------------------------------------------- C24
\* The provider answered the primary strategy, but with no result: zero
\* results, a status that is neither 200 nor a rotate signal, or a body that
\* cannot be parsed.
AnsweredWithoutResult(r) ==
  /\ r.kind = "resp"
  /\ \/ r.status = 200 /\ r.parse = "ok" /\ r.body = <<>>
     \/ r.status \notin {200, 401, 402, 429}
     \/ r.status = 200 /\ r.parse # "ok"

C24_Step ==
  \A s \in Sess :
    /\ (pc[s] = "primary_ret" /\ AnsweredWithoutResult(call[s].resp) /\ pc'[s] # pc[s]) =>
         /\ pc'[s] = "secondary"
         /\ call'[s].tried = <<>> /\ call'[s].left = Max2(1, Len(KEYS))
         /\ req'[s] = req[s]
         /\ listCache' = listCache /\ ret'[s] = ret[s]
    /\ (pc[s] = "secondary_ret" /\ NonEmpty200(call[s].resp) /\ pc'[s] # pc[s]) =>
         /\ pc'[s] = "idle"
         /\ req'[s].key = req[s].key
         /\ ret'[s] = [via |-> "r455",
                       list |-> SummariesOf(call[s].resp.body, "findByIngredients"),
                       detail |-> NoDetail, attempts |-> req[s].attempts]
         /\ \/ listCache' = PutPersisted(req[s].key, ret'[s].list)
            \/ listCache' \in {listCache, CorruptFile}   \* the write did not complete

\* C24: when the provider answered complexSearch with zero results, with a
\* status that is neither 200 nor a rotate signal, or with an unparseable
\* body, the list request goes on to findByIngredients; a non-empty result of
\* that is written to the cache under the same key and returned.
C24_SecondaryAfterEmptyPrimary == [][C24_Step]_vars

C24_Witness ==
  \E s \in Sess :
    /\ pc[s] = "idle" /\ req[s].op = "list" /\ ret[s].via = "r455"
    /\ Len(KEYS) = 1 /\ ret[s].attempts = 2
    /\ Persisted(req[s].key)
    /\ listCache.items[req[s].key] = [ts |-> now, data |-> ret[s].list]
    /\ ret[s].list[1].src = "findByIngredients"

\* --------------------------------------------------------------- C25
C25_Step ==
  \A s \in Sess :
    (pc[s] = "primary_ret" /\ call[s].resp = NoResponse /\ pc'[s] # pc[s]) =>
      /\ pc'[s] = "idle" /\ call'[s] = NoCall
      /\ ret'[s].via = "r424"
      /\ ret'[s].attempts = req[s].attempts
      /\ req[s].attempts = Len(KEYS)
      /\ listCache' = listCache /\ key_index' = key_index
      /\ IF Persisted(req[s].key)
         THEN ret'[s].list = listCache.items[req[s].key].data
         ELSE ret'[s].list \in DemoLists

\* C25: when complexSearch ends in "no response" (every key failed), the list
\* request makes no further network attempt, findByIngredients included: it
\* returns at once the payload of the (stale) entry for its key if there is
\* one, else the offline catalog.
C25_TotalFailureSkipsSecondary ==
  [](\A s \in Sess : pc[s] \in {"secondary", "secondary_ret"} => req[s].attempts >= 1)
    /\ [][C25_Step]_vars

C25_Witness ==
  \E s \in Sess :
    /\ pc[s] = "idle" /\ req[s].op = "list" /\ ret[s].via = "r424"
    /\ Len(KEYS) = 3 /\ ret[s].attempts = 3
    /\ Persisted(req[s].key)
    /\ now - listCache.items[req[s].key].ts > CACHE_TTL_DAYS
    /\ ret[s].list = listCache.items[req[s].key].data

\* --------------------------------------------------------------- C26
C26_Step ==
  \A s \in Sess :
    \* the index moves only in an attempt that got a rotate signal
    /\ (key_index'[s] # key_index[s]) =>
         \E out \in OutcomesFor(s) : RotateSignalOut(out) /\ Attempt(s, out)
    \* any other answer ends the call and is what the caller gets
    /\ \A out \in OutcomesFor(s) :
         (~RotateSignalOut(out) /\ Attempt(s, out)) =>
           /\ key_index' = key_index
           /\ pc'[s] \in AfterCall
           /\ call'[s].resp = out
           /\ call'[s].tried = Append(call[s].tried, KEYS[key_index[s] + 1])
    \* and the call that returned makes no further attempt
    /\ pc[s] \in AfterCall => (call'[s] = call[s] \/ call'[s].tried = <<>>)

\* C26: the key index changes only in an attempt that gets 401, 402, 429 or a
\* network failure; a response with any other status (200, or 500) ends the
\* call at once, is handed to the caller and leaves the key index where it
\* was, and the call does not try another key after it.
C26_RotateOnlyOnSignal ==
  [](\A s \in Sess :
       (pc[s] \in AfterCall /\ call[s].resp.kind = "resp") =>
         /\ call[s].resp.status \in {200, 500}
         /\ call[s].tried[Len(call[s].tried)] = KEYS[key_index[s] + 1])
    /\ [][C26_Step]_vars

C26_Witness ==
  \E s \in Sess :
    /\ Len(KEYS) = 3 /\ pc[s] = "primary_ret"
    /\ call[s].resp.kind = "resp" /\ call[s].resp.status = 500
    /\ call[s].start = 1 /\ key_index[s] = 1
    /\ call[s].tried = <<KEYS[2]>> /\ call[s].left = 2

\* --------------------------------------------------------------- C27
\* The sessions of the specification with fairness.
LiveSess == {1}

C27_Step ==
  \A s \in Sess :
    \* attempts are made one at a time, and only inside call_spoonacular
    /\ req'[s].attempts \in {req[s].attempts, req[s].attempts + 1, 0}
    /\ req'[s].attempts = req[s].attempts + 1 => pc[s] \in InCall

\* C27: every list request returns to its caller, through a return statement,
\* after at most 2 * max(1, len(pool)) network attempts (one pass over the
\* pool per strategy), whatever the provider answers; attempts are made one
\* at a time.
C27_ListTerminates ==
  /\ [](\A s \in Sess :
          /\ req[s].attempts <= 2 * Max2(1, Len(KEYS))
          /\ ret[s].attempts <= 2 * Max2(1, Len(KEYS))
          /\ pc[s] \in {"primary", "primary_ret"} => req[s].attempts <= Max2(1, Len(KEYS)))
  /\ [][C27_Step]_vars
  /\ \A s \in LiveSess :
       (pc[s] # "idle" /\ req[s].op = "list")
         ~> (pc[s] = "idle" /\ req[s].op = "list" /\ ret[s].via \in ListReturns)

C27_Witness ==
  \E s \in Sess :
    /\ pc[s] = "idle" /\ req[s].op = "list" /\ ret[s].via = "r457"
    /\ Len(KEYS) = 3 /\ ret[s].attempts = 2 * 3

\* --------------------------------------------------------------- C28
C28_Step ==
  \* a write leaves the complete new document or the complete previous one,
  \* and no entry that was stored is lost
  /\ (listCache' # listCache) =>
       /\ listCache'.kind = "doc"
       /\ \A k \in DOMAIN PersistedItems : k \in DOMAIN listCache'.items
  /\ \A i \in DOMAIN detailCache :
       (detailCache'[i] # detailCache[i]) => detailCache'[i].kind = "doc"

\* C28: a cache write is all-or-nothing: after a write that failed or was
\* interrupted the file holds the complete new document or the complete
\* previous one, so a reader never finds a partial document and no entry
\* stored before is lost.
C28_AllOrNothingWrite ==
  [](listCache.kind \in {"missing", "doc"}
       /\ \A i \in DOMAIN detailCache : detailCache[i].kind \in {"missing", "doc"})
    /\ [][C28_Step]_vars

\* --------------------------------------------------------------- C29
\* Session s completes a fetch, and its write of the cache document completes.
SavedBy(s) ==
  /\ pc[s] \in {"primary_ret", "secondary_ret"} /\ pc'[s] = "idle"
  /\ ret'[s].via \in {"r421", "r455"}
  /\ listCache'.kind = "doc"
  /\ req[s].key \in DOMAIN listCache'.items
  /\ listCache'.items[req[s].key] = [ts |-> now, data |-> ret'[s].list]

C29_Step ==
  \A s \in Sess :
    SavedBy(s) =>
      \* the entry another request wrote, for another key, while this one was
      \* at the provider is still there
      \A k \in DOMAIN PersistedItems :
        (k # req[s].key /\ k \notin DOMAIN req[s].blob.items) =>
          /\ k \in DOMAIN listCache'.items
          /\ listCache'.items[k] = PersistedItems[k]

\* C29: no cache write is lost when list requests interleave: when two list
\* requests for different keys have each read the cache document before the
\* other wrote, and both fetch a non-empty result, the persisted cache holds
\* both entries after both have completed.
C29_NoLostWrite == [][C29_Step]_vars

\* --------------------------------------------------------------- C30
C30_Step ==
  /\ \A s \in Sess : \A i \in RecipeIds \ {0} :
       DetailRequest(s, i) =>
         /\ detailCache' = detailCache
         /\ IF detailCache[i].kind = "doc"
            THEN \* 1) the per-id cache
                 /\ pc'[s] = "idle" /\ call'[s] = NoCall
                 /\ ret'[s] = [via |-> "r470", list |-> <<>>, detail |-> detailCache[i].val,
                               attempts |-> 0]
            ELSE IF i \in DemoDetailIds
            THEN \* 2) the offline catalog
                 /\ pc'[s] = "idle" /\ call'[s] = NoCall
                 /\ ret'[s].via = "r474" /\ ret'[s].attempts = 0
                 /\ ret'[s].detail = [id |-> i, title |-> Rec(i).title, src |-> "demo"]
            ELSE \* 3) the provider
                 /\ pc'[s] = "detail" /\ call'[s].tried = <<>> /\ req'[s].attempts = 0
  \* only a record the provider gave is written, under its id
  /\ \A i \in DOMAIN detailCache :
       (detailCache'[i] # detailCache[i]) =>
         \E s \in Sess :
           /\ pc[s] = "detail_ret" /\ req[s].rid = i
           /\ call[s].resp.kind = "resp" /\ call[s].resp.status = 200
           /\ ret'[s].via = "r502" /\ ret'[s].detail.src = "api"
           /\ detailCache'[i] \in {DetailDoc(ret'[s].detail), CorruptDetailFile}

\* C30: a detail request looks in the per-id detail cache first, then in the
\* offline catalog's detail for the id, and asks the provider only when both
\* miss; a hit in the cache or the catalog is returned with no network
\* attempt, and only a record from the provider is written to the cache.
C30_DetailSourceOrder ==
  [](\A s \in Sess :
       (pc[s] \in {"detail", "detail_ret"}) =>
         /\ detailCache[req[s].rid].kind # "doc"
         /\ req[s].rid \notin DemoDetailIds)
    /\ [][C30_Step]_vars

C30_Witness ==
  \E s \in Sess :
    /\ pc[s] = "idle" /\ req[s].op = "detail" /\ req[s].rid = 2
    /\ 2 \in DemoDetailIds
    /\ ret[s].via = "r470" /\ ret[s].attempts = 0
    /\ ret[s].detail = [id |-> 2, title |-> "Soup", src |-> "api"]
    /\ detailCache[2].kind = "doc"

\* --------------------------------------------------------------- C31
\* The diet names the code knows, in any letter case, and what the provider
\* calls them.
KetoNames == {"keto", "Keto"}
GlutenFreeNames == {"gluten-free", "Gluten-Free"}
PaleoNames == {"paleo", "Paleo"}
NoDietNames == {"none", "NONE"}

MappedDiets(given, sent) ==
  /\ given \in KetoNames => sent = "ketogenic"
  /\ given \in GlutenFreeNames => sent = "gluten free"
  /\ given \in PaleoNames => sent = "paleolithic"

\* C31 as stated: keto, gluten-free and paleo are sent as ketogenic, "gluten
\* free" and paleolithic, whatever their letter case; for "none" and for
\* every name that is not recognized no diet parameter is sent.
C31_UnknownDietDropped ==
  (probe.fn = "diet_param" /\ probe.done) =>
    /\ MappedDiets(probe.diet.given, probe.diet.sent)
    /\ probe.diet.given \notin (KetoNames \cup GlutenFreeNames \cup PaleoNames)
         => probe.diet.sent = "<absent>"

\* C31 amended: keto, gluten-free and paleo are sent as ketogenic, "gluten
\* free" and paleolithic, whatever their letter case; no diet parameter is
\* sent for an absent or empty diet and for "none" in any case; every other
\* name is sent to the provider as it was given.
C31_UnknownDietPassedOn ==
  (probe.fn = "diet_param" /\ probe.done) =>
    /\ MappedDiets(probe.diet.given, probe.diet.sent)
    /\ probe.diet.given \in NoDietNames \cup {None, ""} => probe.diet.sent = "<absent>"
    /\ probe.diet.given \notin (KetoNames \cup GlutenFreeNames \cup PaleoNames
                                   \cup NoDietNames \cup {None, ""})
         => probe.diet.sent = probe.diet.given

C31_Witness ==
  /\ probe.fn = "diet_param" /\ probe.done
  /\ probe.diet.given = "Vegan" /\ probe.diet.sent = "Vegan"

\* --------------------------------------------------------------- C32
\* C32: whenever the three artifacts all exist they come from one training
\* run: the term matrix has one row per row of the lookup table, each as wide
\* as the vocabulary, and row i of the matrix holds the weights of recipe i of
\* the table; after any sequence of train_recipe_model runs, those that
\* failed partway included.
C32_ArtifactsFromOneRun ==
  ~SomeArtifactAbsent =>
    /\ Len(artifacts.matrix.w) = Len(artifacts.map.rows)
    /\ \A i \in 1..Len(artifacts.matrix.w) :
         /\ Len(artifacts.matrix.w[i]) = Cardinality(artifacts.vect.vocab)
         /\ i <= Len(artifacts.map.rows) =>
              \A tok \in artifacts.vect.vocab :
                artifacts.matrix.w[i][Column(artifacts.vect.vocab, tok)]
                  = Count(artifacts.map.rows[i].txt, tok)

\* --------------------------------------------------------------- C33
C33_Step ==
  \A s \in Sess : \A i \in RecipeIds :
    (offline_mode[s] /\ DetailRequest(s, i)) =>
      /\ pc'[s] = "idle" /\ call'[s] = NoCall
      /\ ret'[s].attempts = 0
      /\ ret'[s].via \in {"r465", "r470", "r474"} \/ ret'[s].detail = NoDetail
      /\ key_index' = key_index

\* C33: while offline mode is on, a detail request makes no network attempt:
\* it is answered from the per-id detail cache or the offline catalog (or
\* with nothing), and no detail request is at the provider.
C33_OfflineDetailsNoNetwork ==
  [](\A s \in Sess : (offline_mode[s] /\ req[s].op = "detail") => pc[s] = "idle")
    /\ [][C33_Step]_vars

\* --------------------------------------------------------------- C34
\* With one query in use, every list request has the same arguments.
C34_Step ==
  \A s \in Sess : \A a \in queries :
    ListRequest(s, a) =>
      \* the key is the one the request before used, online or offline
      /\ req[s].op = "list" => req'[s].key = req[s].key
      \* and offline, what was cached for these arguments is served while fresh
      /\ ( /\ offline_mode[s]
           /\ \E k \in DOMAIN PersistedItems : IsFresh(PersistedItems[k].ts, now) )
         => \E k \in DOMAIN PersistedItems :
              /\ req'[s].key = k
              /\ ret'[s].via = "r367"
              /\ ret'[s].list = PersistedItems[k].data

\* C34: an offline and an online list request with the same (ingredients,
\* diet, count) use the same cache key, the diets keto and paleo and the
\* empty ingredient list included: what an online request cached is what the
\* offline request looks up and serves while it is fresh.
C34_SameKeyOfflineOnline == [][C34_Step]_vars

\* --------------------------------------------------------------- C35
\* The ingredient set of a query, its names compared as the key compares them
\* (lower-cased).
QueriedSet(q) == Range(LowerAll(q))

\* C35: two online list requests with the same cache key send the same
\* ingredient set to the provider, lists of more than 20 names in different
\* orders included, so that a cache hit never serves the results of another
\* query.
C35_SameKeySameQuery ==
  (probe.fn = "query" /\ probe.done /\ probe.ka = probe.kb)
    => QueriedSet(probe.qa) = QueriedSet(probe.qb)

\* --------------------------------------------------------------- C36
\* C36: after any purchases recorded with add_txn, the remaining amount the
\* Budget page shows is monthly_budget minus the ledger's total for the
\* current month minus the planned spend, and the status is "over" exactly
\* when that amount is negative.
C36_RemainingCountsPurchases ==
  home.view.shown =>
    LET spent == MonthSummary(home.txns, home.today.m, home.today.y).spent
        left  == home.budget.monthly_budget - spent - home.budget.planned_spend
    IN /\ home.view.remaining = left
       /\ home.view.status = "over" <=> left < 0

\* --------------------------------------------------------------- C37
Ids(inv) == { inv[i].Product_ID : i \in 1..Len(inv) }

Without(inv, i) == [ j \in 1..(Len(inv) - 1) |-> IF j < i THEN inv[j] ELSE inv[j + 1] ]

C37_Step ==
  \A product_id \in Ids(home.inventory) :
    /\ DeleteItem(product_id) =>
         \E i \in 1..Len(home.inventory) :
           /\ home.inventory[i].Product_ID = product_id
           /\ home'.inventory = Without(home.inventory, i)
    /\ \A new_qty \in {5, 9} :
         UpdateQty(product_id, new_qty) =>
           \E i \in 1..Len(home.inventory) :
             /\ home.inventory[i].Product_ID = product_id
             /\ home'.inventory = [home.inventory EXCEPT ![i].quantity_on_hand = new_qty]

\* C37: after any add_item calls without a Product_ID the ids in the
\* inventory are pairwise distinct, so that delete_item(id) removes exactly
\* one row and update_qty(id, q) changes exactly one row, every other row
\* staying as it was.
C37_DistinctProductIds ==
  /\ [](\A i, j \in 1..Len(home.inventory) :
          home.inventory[i].Product_ID = home.inventory[j].Product_ID => i = j)
  /\ [][C37_Step]_vars

====
